---- MODULE Spec2Model ----
\* Verification model of the School-AI analysis backend:
\*   src/app.py               task registry, background pipeline, association stages
\*   src/src/backend/app2.py  batched pairwise Cramer's V with ETA
EXTENDS Integers, Sequences, FiniteSets, TLC

\* ------------------------------------------------------------------
\* Bounds of the model
\* ------------------------------------------------------------------
MaxTasks == 2
MaxFaults == 1

\* ------------------------------------------------------------------
\* Python values
\* ------------------------------------------------------------------
\* Optional values: None is the empty tuple, a present value x is <<x>>.
None == <<>>
Some(x) == <<x>>

Max2(a, b) == IF a >= b THEN a ELSE b
Min2(a, b) == IF a <= b THEN a ELSE b
Abs(a) == IF a >= 0 THEN a ELSE 0 - a

RECURSIVE Pow2(_)
Pow2(n) == IF n = 0 THEN 1 ELSE 2 * Pow2(n - 1)

\* ------------------------------------------------------------------
\* IEEE-754 binary64 arithmetic on non-negative values, as CPython's float
\* does it (round to nearest, ties to even).  A float is zero (m = <<>>) or
\* [e, m]: m = <<l1, l2, l3, l4>> is the 53-bit significand in four limbs of
\* base 2^13 (l1 holds the leading bit: Limb <= l1 < 2 * Limb), and e is the
\* binary exponent of the leading bit.
\* ------------------------------------------------------------------
Limb == 8192

FZero == [e |-> 0, m |-> <<>>]

\* the significand plus one unit in the last place
IncMant(e, m) ==
    IF m[4] + 1 < Limb THEN [e |-> e, m |-> <<m[1], m[2], m[3], m[4] + 1>>]
    ELSE IF m[3] + 1 < Limb THEN [e |-> e, m |-> <<m[1], m[2], m[3] + 1, 0>>]
    ELSE IF m[2] + 1 < Limb THEN [e |-> e, m |-> <<m[1], m[2] + 1, 0, 0>>]
    ELSE IF m[1] + 1 < 2 * Limb THEN [e |-> e, m |-> <<m[1] + 1, 0, 0, 0>>]
    ELSE [e |-> e + 1, m |-> <<Limb, 0, 0, 0>>]

\* round to nearest, ties to even: up says the discarded part is more than
\* half a unit in the last place, tie that it is exactly half
FRound(e, m, up, tie) ==
    IF up \/ (tie /\ m[4] % 2 = 1) THEN IncMant(e, m) ELSE [e |-> e, m |-> m]

\* the largest s with b * 2^s <= a (a >= b), and the smallest s with
\* a * 2^s >= b (a < b)
RECURSIVE ShiftDown(_, _)
ShiftDown(a, b) == IF a >= 2 * b THEN 1 + ShiftDown(a, 2 * b) ELSE 0
RECURSIVE ShiftUp(_, _)
ShiftUp(a, b) == IF a >= b THEN 0 ELSE 1 + ShiftUp(2 * a, b)

\* float(a) / float(b) for integers a >= 0, b > 0 that floats hold exactly
FDivInt(a, b) ==
    IF a = 0 THEN FZero
    ELSE LET up == ShiftUp(a, b)
             dn == ShiftDown(a, b)
             a1 == a * Pow2(up)
             b1 == b * Pow2(dn)
             \* b1 <= a1 < 2 * b1: the quotient is 1.xxx
             q1 == (a1 * Limb) \div b1
             r1 == (a1 * Limb) % b1
             q2 == (r1 * Limb) \div b1
             r2 == (r1 * Limb) % b1
             q3 == (r2 * Limb) \div b1
             r3 == (r2 * Limb) % b1
             q4 == (r3 * Limb) \div b1
             r4 == (r3 * Limb) % b1
         IN FRound(dn - up, <<q1, q2, q3, q4>>, 2 * r4 > b1, 2 * r4 = b1)

\* the integer n >= 0 as a float (exact for the small n of the program)
FInt(n) == FDivInt(n, 1)

\* x * float(c) for a float x and an integer 0 <= c < Limb
FMulInt(x, c) ==
    IF x.m = <<>> \/ c = 0 THEN FZero
    ELSE LET t4 == x.m[4] * c
             t3 == x.m[3] * c + (t4 \div Limb)
             t2 == x.m[2] * c + (t3 \div Limb)
             t1 == x.m[1] * c + (t2 \div Limb)
             n4 == t4 % Limb
             n3 == t3 % Limb
             n2 == t2 % Limb
             s  == ShiftDown(t1, Limb)
             p  == Pow2(s)
             m1 == t1 \div p
             m2 == ((t1 % p) * Limb + n2) \div p
             m3 == ((n2 % p) * Limb + n3) \div p
             m4 == ((n3 % p) * Limb + n4) \div p
             out == n4 % p
         IN IF s = 0 THEN [e |-> x.e, m |-> <<m1, m2, m3, m4>>]
            ELSE FRound(x.e + s, <<m1, m2, m3, m4>>,
                        2 * out > p, 2 * out = p)

\* x <= y on floats
FLeq(x, y) ==
    IF x.m = <<>> THEN TRUE
    ELSE IF y.m = <<>> THEN FALSE
    ELSE IF x.e # y.e THEN x.e < y.e
    ELSE IF x.m[1] # y.m[1] THEN x.m[1] < y.m[1]
    ELSE IF x.m[2] # y.m[2] THEN x.m[2] < y.m[2]
    ELSE IF x.m[3] # y.m[3] THEN x.m[3] < y.m[3]
    ELSE x.m[4] <= y.m[4]

\* ------------------------------------------------------------------
\* Sequences and sets
\* ------------------------------------------------------------------
Range(seq) == { seq[i] : i \in 1..Len(seq) }

RECURSIVE Flatten(_)
Flatten(seqs) == IF seqs = <<>> THEN <<>> ELSE Head(seqs) \o Flatten(Tail(seqs))

Reverse(seq) == [i \in 1..Len(seq) |-> seq[Len(seq) + 1 - i]]

\* sum and product of the values of a function with a finite domain
RECURSIVE SumOver(_, _)
SumOver(f, S) ==
    IF S = {} THEN 0 ELSE LET x == CHOOSE y \in S : TRUE IN f[x] + SumOver(f, S \ {x})
RECURSIVE ProdOver(_, _)
ProdOver(f, S) ==
    IF S = {} THEN 1 ELSE LET x == CHOOSE y \in S : TRUE IN f[x] * ProdOver(f, S \ {x})

RECURSIVE Gcd(_, _)
Gcd(a, b) == IF b = 0 THEN a ELSE Gcd(b, a % b)

\* itertools.combinations(seq, r), in the order itertools yields them
RECURSIVE combinations(_, _)
combinations(seq, r) ==
    IF r = 0 THEN << <<>> >>
    ELSE IF Len(seq) < r THEN <<>>
    ELSE LET with == combinations(Tail(seq), r - 1)
         IN [i \in 1..Len(with) |-> <<Head(seq)>> \o with[i]]
            \o combinations(Tail(seq), r)

\* itertools.product(*lists)
RECURSIVE product(_)
product(lists) ==
    IF lists = <<>> THEN << <<>> >>
    ELSE LET rest == product(Tail(lists))
         IN Flatten([i \in 1..Len(Head(lists)) |->
                      [j \in 1..Len(rest) |-> <<Head(lists)[i]>> \o rest[j]]])

\* ------------------------------------------------------------------
\* Column names are strings, modelled as sequences of characters.
\* ------------------------------------------------------------------
\* col.split('_')[0]
RECURSIVE Prefix(_)
Prefix(col) ==
    IF col = <<>> THEN <<>>
    ELSE IF Head(col) = "_" THEN <<>>
    ELSE <<Head(col)>> \o Prefix(Tail(col))

\* ------------------------------------------------------------------
\* pandas: a DataFrame is [columns: sequence of names, n: number of rows,
\* col: name -> sequence of n values].  The request's data is a sequence of
\* rows, each a mapping from column name to a number (complete, numeric
\* data: fillna, reduce_cardinality and get_dummies leave it as it is).
\* ------------------------------------------------------------------
\* the column names of pd.DataFrame(data)
DataColumns(data) == UNION { DOMAIN data[i] : i \in 1..Len(data) }

\* pd.DataFrame(data)[selected_columns]; a name that is no column of the
\* data raises KeyError
SelectRaises(data, selected_columns) ==
    \E i \in 1..Len(selected_columns) : selected_columns[i] \notin DataColumns(data)

SelectColumns(data, selected_columns) ==
    [columns |-> selected_columns,
     n       |-> Len(data),
     col     |-> [c \in Range(selected_columns) |-> [i \in 1..Len(data) |-> data[i][c]]]]

nunique(df, c) == Cardinality(Range(df.col[c]))

\* The two-way table of counts that pd.crosstab(df[c1], df[c2]) and
\* df.groupby(cols).size().unstack(fill_value=0) build: the rows are the
\* observed value tuples of all columns but the last, the columns the
\* observed values of the last column.
FreqTable(df, cols) ==
    LET k     == Len(cols)
        key(i) == [j \in 1..(k - 1) |-> df.col[cols[j]][i]]
        val(i) == df.col[cols[k]][i]
        index == { key(i) : i \in 1..df.n }
        columns == { val(i) : i \in 1..df.n }
    IN [index   |-> index,
        columns |-> columns,
        cell    |-> [rc \in index \X columns |->
                       Cardinality({ i \in 1..df.n : key(i) = rc[1] /\ val(i) = rc[2] })]]

crosstab(df, c1, c2) == FreqTable(df, <<c1, c2>>)

TableSize(t) == Cardinality(t.index) * Cardinality(t.columns)
\* min(table.shape) - 1
MinDim(t) == Min2(Cardinality(t.index), Cardinality(t.columns)) - 1
\* table.sum().sum()
TableTotal(t) == SumOver(t.cell, DOMAIN t.cell)
RowTotal(t, r) == SumOver([c \in t.columns |-> t.cell[<<r, c>>]], t.columns)
ColTotal(t, c) == SumOver([r \in t.index |-> t.cell[<<r, c>>]], t.index)

\* ------------------------------------------------------------------
\* scipy.stats.chi2_contingency(table, correction)[0], the Pearson
\* chi-square statistic as the exact fraction [num, den].  With zero degrees
\* of freedom it is 0.0; with one degree of freedom and correction, each
\* observed count is first moved towards its expectation by min(0.5, |diff|)
\* (Yates).  The p-value and the expected table are not modelled.
\* ------------------------------------------------------------------
chi2_contingency(t, correction) ==
    LET n   == TableTotal(t)
        R   == [r \in t.index |-> RowTotal(t, r)]
        C   == [c \in t.columns |-> ColTotal(t, c)]
        D   == ProdOver(R, t.index) * ProdOver(C, t.columns)
        dof == (Cardinality(t.index) - 1) * (Cardinality(t.columns) - 1)
        \* sum of O^2 / (R C), times D
        S   == SumOver([rc \in DOMAIN t.cell |->
                         t.cell[rc] * t.cell[rc] * (D \div (R[rc[1]] * C[rc[2]]))],
                       DOMAIN t.cell)
        \* 2n * max(|E - O| - 0.5, 0)
        m   == [rc \in DOMAIN t.cell |->
                 Max2(2 * Abs(R[rc[1]] * C[rc[2]] - n * t.cell[rc]) - n, 0)]
        SY  == SumOver([rc \in DOMAIN t.cell |->
                         m[rc] * m[rc] * (D \div (R[rc[1]] * C[rc[2]]))],
                       DOMAIN t.cell)
    IN IF dof = 0 THEN [num |-> 0, den |-> 1]
       ELSE IF dof = 1 /\ correction THEN [num |-> SY, den |-> 4 * n * D]
       ELSE [num |-> n * (S - D), den |-> D]

\* ------------------------------------------------------------------
\* Association strengths are floats, modelled in thousandths rounded down,
\* with NaN as a value of its own: [nan, val].
\* ------------------------------------------------------------------
Scale == 1000
NaN == [nan |-> TRUE, val |-> 0]
Num(v) == [nan |-> FALSE, val |-> v]
isnan(x) == x.nan
\* x < y on floats: every comparison with NaN is false
Lt(x, y) == ~x.nan /\ ~y.nan /\ x.val < y.val

\* the largest v in lo..hi with v * v * b <= a (bisection; lo satisfies it)
RECURSIVE SqrtSearch(_, _, _, _)
SqrtSearch(a, b, lo, hi) ==
    IF lo >= hi THEN lo
    ELSE LET mid == (lo + hi + 1) \div 2
         IN IF mid * mid * b <= a THEN SqrtSearch(a, b, mid, hi)
            ELSE SqrtSearch(a, b, lo, mid - 1)

\* floor(Scale * sqrt(num / den)) for 0 <= num / den <= 1
SqrtScaled(num, den) ==
    LET g == Gcd(num, den)
    IN SqrtSearch(Scale * Scale * (num \div g), den \div g, 0, Scale)

\* np.sqrt(chi2 / (n * min_dim)): 0.0 / 0 is NaN in numpy (chi2 is 0.0
\* whenever min_dim is 0)
CramersV(chi2, n, min_dim) ==
    IF n * min_dim = 0 THEN NaN
    ELSE Num(SqrtScaled(chi2.num, chi2.den * n * min_dim))

\* src/app.py interpret_cramers_v
\* the cut points taken as inclusive upper ends
interpret_cramers_v_Inclusive(v) ==
    IF ~Lt(Num(100), v) THEN "Very weak"
    ELSE IF ~Lt(Num(300), v) THEN "Weak"
    ELSE IF ~Lt(Num(500), v) THEN "Moderate"
    ELSE IF ~Lt(Num(700), v) THEN "Strong"
    ELSE "Very strong"

interpret_cramers_v(v) ==
    IF Lt(v, Num(100)) THEN "Very weak"
    ELSE IF Lt(v, Num(300)) THEN "Weak"
    ELSE IF Lt(v, Num(500)) THEN "Moderate"
    ELSE IF Lt(v, Num(700)) THEN "Strong"
    ELSE "Very strong"

\* ------------------------------------------------------------------
\* sorted(results, key=lambda x: x['cramers_v'], reverse=True) as CPython's
\* list.sort does it for fewer than 64 items: reverse, find the initial run,
\* binary insertion sort of the rest with <, reverse again.
\* ------------------------------------------------------------------
KeyLt(a, b) == Lt(a.cramers_v, b.cramers_v)

RECURSIVE RunEnd(_, _, _)
RunEnd(seq, i, desc) ==
    IF i > Len(seq) THEN Len(seq)
    ELSE IF KeyLt(seq[i], seq[i - 1]) = desc THEN RunEnd(seq, i + 1, desc)
    ELSE i - 1

RECURSIVE InsertPos(_, _, _, _)
InsertPos(run, pivot, l, r) ==
    IF l >= r THEN l
    ELSE LET p == l + ((r - l) \div 2)
         IN IF KeyLt(pivot, run[p]) THEN InsertPos(run, pivot, l, p)
            ELSE InsertPos(run, pivot, p + 1, r)

RECURSIVE BinarySort(_, _)
BinarySort(run, rest) ==
    IF rest = <<>> THEN run
    ELSE LET at == InsertPos(run, Head(rest), 1, Len(run) + 1)
         IN BinarySort(SubSeq(run, 1, at - 1) \o <<Head(rest)>> \o SubSeq(run, at, Len(run)),
                       Tail(rest))

ListSort(seq) ==
    IF Len(seq) < 2 THEN seq
    ELSE LET desc == KeyLt(seq[2], seq[1])
             n    == RunEnd(seq, 3, desc)
             run  == IF desc THEN Reverse(SubSeq(seq, 1, n)) ELSE SubSeq(seq, 1, n)
         IN BinarySort(run, SubSeq(seq, n + 1, Len(seq)))

SortedByStrengthDesc(results) == Reverse(ListSort(Reverse(results)))

\* ------------------------------------------------------------------
\* src/app.py compute_average_cramers_v
\* ------------------------------------------------------------------
max_unique_values == 10

\* one pass of the loop over the pairs: acc = [total_cramers_v, valid_pairs]
AverageLoopBody(df, acc, pair) ==
    LET t == crosstab(df, pair[1], pair[2])
        v == CramersV(chi2_contingency(t, TRUE), TableTotal(t), MinDim(t))
    IN IF TableSize(t) = 0 THEN acc
       ELSE IF ~isnan(v)
            THEN [total_cramers_v |-> acc.total_cramers_v + v.val,
                  valid_pairs     |-> acc.valid_pairs + 1]
            ELSE acc

RECURSIVE AverageLoop(_, _, _)
AverageLoop(df, acc, pairs) ==
    IF pairs = <<>> THEN acc
    ELSE AverageLoop(df, AverageLoopBody(df, acc, Head(pairs)), Tail(pairs))

categorical_cols(df) ==
    LET Few(c) == nunique(df, c) <= max_unique_values IN SelectSeq(df.columns, Few)

\* the result and the error log it leaves
compute_average_cramers_v(df, error_logs) ==
    LET cols  == categorical_cols(df)
        pairs == combinations(cols, 2)
        acc   == AverageLoop(df, [total_cramers_v |-> 0, valid_pairs |-> 0], pairs)
        avg   == Num(acc.total_cramers_v \div acc.valid_pairs)
    IN IF Len(cols) < 2
       THEN [result |-> None,
             error_logs |-> Append(error_logs,
                 "Not enough variables for correlation analysis after filtering.")]
       ELSE IF acc.valid_pairs = 0
       THEN [result |-> None,
             error_logs |-> Append(error_logs,
                 "No valid pairs for computing average Cramer's V.")]
       ELSE [result |-> Some([value |-> avg, interpretation |-> interpret_cramers_v(avg)]),
             error_logs |-> error_logs]

\* ------------------------------------------------------------------
\* src/app.py chi_square_tests and multi_variable_analysis
\* ------------------------------------------------------------------
\* the keys of column_groups, in insertion order
RECURSIVE GroupKeys(_)
GroupKeys(columns) ==
    IF columns = <<>> THEN <<>>
    ELSE LET before == GroupKeys(SubSeq(columns, 1, Len(columns) - 1))
             g      == Prefix(columns[Len(columns)])
         IN IF g \in Range(before) THEN before ELSE Append(before, g)

\* column_groups[g]
GroupColumns(columns, g) ==
    LET InGroup(c) == Prefix(c) = g IN SelectSeq(columns, InGroup)

\* every pair of columns, whatever their groups
ChiSquarePairs_AllPairs(columns) == combinations(columns, 2)

\* the column pairs the nested loops of chi_square_tests visit, in order
ChiSquarePairs(columns) ==
    LET gp == combinations(GroupKeys(columns), 2)
    IN Flatten([i \in 1..Len(gp) |->
                 product(<<GroupColumns(columns, gp[i][1]),
                           GroupColumns(columns, gp[i][2])>>)])

ChiSquareLoopBody(df, results, pair) ==
    LET t    == crosstab(df, pair[1], pair[2])
        chi2 == chi2_contingency(t, TRUE)
        v    == CramersV(chi2, TableTotal(t), MinDim(t))
    IN IF TableSize(t) = 0 THEN results
       ELSE Append(results, [variable_1     |-> pair[1],
                             variable_2     |-> pair[2],
                             chi2           |-> chi2,
                             cramers_v      |-> v,
                             interpretation |-> interpret_cramers_v(v)])

RECURSIVE ChiSquareLoop(_, _, _)
ChiSquareLoop(df, results, pairs) ==
    IF pairs = <<>> THEN results
    ELSE ChiSquareLoop(df, ChiSquareLoopBody(df, results, Head(pairs)), Tail(pairs))

chi_square_tests(df, error_logs) ==
    IF Len(df.columns) < 2
    THEN [result |-> <<>>,
          error_logs |-> Append(error_logs, "Not enough variables for chi-square tests.")]
    ELSE [result |-> SortedByStrengthDesc(ChiSquareLoop(df, <<>>, ChiSquarePairs(df.columns))),
          error_logs |-> error_logs]

\* group_combinations: every combination of 2 or more group keys
RECURSIVE GroupCombinations(_, _)
GroupCombinations(keys, r) ==
    IF r > Len(keys) THEN <<>>
    ELSE combinations(keys, r) \o GroupCombinations(keys, r + 1)

\* the tuples of the combinations of exactly two groups only
MultiVariableTuples_PairsOnly(columns) ==
    LET gc == combinations(GroupKeys(columns), 2)
    IN Flatten([i \in 1..Len(gc) |->
                 product([j \in 1..Len(gc[i]) |-> GroupColumns(columns, gc[i][j])])])

\* the column tuples the nested loops of multi_variable_analysis visit
MultiVariableTuples(columns) ==
    LET gc == GroupCombinations(GroupKeys(columns), 2)
    IN Flatten([i \in 1..Len(gc) |->
                 product([j \in 1..Len(gc[i]) |-> GroupColumns(columns, gc[i][j])])])

MultiVariableLoopBody(df, results, cols) ==
    LET t       == FreqTable(df, cols)
        chi2    == chi2_contingency(t, TRUE)
        min_dim == MinDim(t)
        v       == CramersV(chi2, TableTotal(t), min_dim)
    IN IF Cardinality({ Prefix(cols[j]) : j \in 1..Len(cols) }) < 2 THEN results
       ELSE IF min_dim = 0 THEN results
       ELSE Append(results, [variables      |-> cols,
                             chi2           |-> chi2,
                             cramers_v      |-> v,
                             interpretation |-> interpret_cramers_v(v)])

RECURSIVE MultiVariableLoop(_, _, _)
MultiVariableLoop(df, results, tuples) ==
    IF tuples = <<>> THEN results
    ELSE MultiVariableLoop(df, MultiVariableLoopBody(df, results, Head(tuples)), Tail(tuples))

multi_variable_analysis(df, error_logs) ==
    IF Len(df.columns) < 2
    THEN [result |-> <<>>,
          error_logs |-> Append(error_logs, "Not enough variables for multi-variable analysis.")]
    ELSE [result |-> SortedByStrengthDesc(
                        MultiVariableLoop(df, <<>>, MultiVariableTuples(df.columns))),
          error_logs |-> error_logs]

\* ------------------------------------------------------------------
\* The classifier stages (scikit-learn fits) are opaque: one entry per target
\* column; the accuracy and the order by accuracy are not modelled.
\* ------------------------------------------------------------------
ModelResults(df) ==
    [i \in 1..Len(df.columns) |->
        [target     |-> df.columns[i],
         predictors |-> LET Other(c) == c # df.columns[i] IN SelectSeq(df.columns, Other)]]

logistic_regression_analysis(df, error_logs) ==
    [result |-> ModelResults(df), error_logs |-> error_logs]
decision_tree_analysis(df, error_logs) ==
    [result |-> ModelResults(df), error_logs |-> error_logs]
random_forest_analysis(df, error_logs) ==
    [result |-> ModelResults(df), error_logs |-> error_logs]

\* preprocess_dataframe on complete numeric data: a copy of the frame
preprocess_dataframe(df, error_logs) == [result |-> df, error_logs |-> error_logs]

\* ------------------------------------------------------------------
\* src/app.py process_data_task: the fixed stage sequence
\* ------------------------------------------------------------------
\* the stage list with the two classifier stages 4 and 5 exchanged
steps_Swapped == << "Preprocessing Data",
                    "Computing Average Cramer's V",
                    "Logistic Regression Analysis",
                    "Random Forest Analysis",
                    "Decision Tree Analysis",
                    "Chi-Square Tests",
                    "Multi-Variable Analysis" >>

steps == << "Preprocessing Data",
            "Computing Average Cramer's V",
            "Logistic Regression Analysis",
            "Decision Tree Analysis",
            "Random Forest Analysis",
            "Chi-Square Tests",
            "Multi-Variable Analysis" >>
total_steps == Len(steps)

\* what the stage's except clause appends to error_logs
StageErrorMessage(k) ==
    CASE k = 1 -> "Error processing dataframe"
      [] k = 2 -> "Error computing average Cramer's V"
      [] k = 3 -> "Error during logistic regression analysis"
      [] k = 4 -> "Error during decision tree analysis"
      [] k = 5 -> "Error during random forest analysis"
      [] k = 6 -> "Error during chi-square tests"
      [] k = 7 -> "Error during multi-variable analysis"

\* what the stage's except clause returns
StageFailureResult(k, df) ==
    CASE k = 1 -> df
      [] k = 2 -> None
      [] OTHER -> <<>>

\* RunStage with the stage's try/except left out: what the stage raises
\* leaves the statement
RunStage_NoTry(k, content, df, error_logs, raised) ==
    IF raised \/ (k = 1 /\ SelectRaises(content.data, content.selected_columns))
    THEN [escapes |-> TRUE, message |-> StageErrorMessage(k),
          result |-> None, error_logs |-> error_logs]
    ELSE LET frame == IF k = 1
                      THEN SelectColumns(content.data, content.selected_columns)
                      ELSE df
             out == CASE k = 1 -> preprocess_dataframe(frame, error_logs)
                      [] k = 2 -> compute_average_cramers_v(frame, error_logs)
                      [] k = 3 -> logistic_regression_analysis(frame, error_logs)
                      [] k = 4 -> decision_tree_analysis(frame, error_logs)
                      [] k = 5 -> random_forest_analysis(frame, error_logs)
                      [] k = 6 -> chi_square_tests(frame, error_logs)
                      [] k = 7 -> multi_variable_analysis(frame, error_logs)
         IN [escapes |-> FALSE, message |-> "",
             result |-> out.result, error_logs |-> out.error_logs]

\* The statement of process_data_task that calls stage k on the frame df
\* (for stage 1, pd.DataFrame(data)[selected_columns] and preprocessing).
\* raised says that the stage's computation raises inside its try block.
\* escapes says that an exception leaves the statement, with message.
RunStage(k, content, df, error_logs, raised) ==
    IF k = 1 /\ SelectRaises(content.data, content.selected_columns)
    THEN [escapes |-> TRUE, message |-> "KeyError: not in index",
          result |-> None, error_logs |-> error_logs]
    ELSE LET frame == IF k = 1
                      THEN SelectColumns(content.data, content.selected_columns)
                      ELSE df
             out == IF raised
                    THEN [result |-> StageFailureResult(k, frame),
                          error_logs |-> Append(error_logs, StageErrorMessage(k))]
                    ELSE CASE k = 1 -> preprocess_dataframe(frame, error_logs)
                           [] k = 2 -> compute_average_cramers_v(frame, error_logs)
                           [] k = 3 -> logistic_regression_analysis(frame, error_logs)
                           [] k = 4 -> decision_tree_analysis(frame, error_logs)
                           [] k = 5 -> random_forest_analysis(frame, error_logs)
                           [] k = 6 -> chi_square_tests(frame, error_logs)
                           [] k = 7 -> multi_variable_analysis(frame, error_logs)
         IN [escapes |-> FALSE, message |-> "",
             result |-> out.result, error_logs |-> out.error_logs]

\* ------------------------------------------------------------------
\* The requests submitted to /process in the registry specification
\* ------------------------------------------------------------------
ColA  == <<"a", "_", "1">>
ColA2 == <<"a", "_", "2">>
ColB  == <<"b">>
ColK  == <<"k">>
ColZ  == <<"z">>

SampleRow(a, a2, b, k) == (ColA :> a) @@ (ColA2 :> a2) @@ (ColB :> b) @@ (ColK :> k)
\* ColB follows ColA, ColA2 is independent of both, ColK is constant
SampleData == << SampleRow(0, 0, 0, 5), SampleRow(0, 1, 0, 5),
                 SampleRow(1, 0, 1, 5), SampleRow(1, 1, 1, 5) >>

Selections == { <<ColA, ColB, ColK>>, <<ColA, ColZ>>, <<ColA>>, <<>> }

Requests ==
    { [data |-> SampleData, selected_columns |-> sel] : sel \in Selections }
    \cup { [data |-> <<>>, selected_columns |-> <<ColA, ColB>>] }

\* ------------------------------------------------------------------
\* State of src/app.py
\* ------------------------------------------------------------------
TaskIds == 1..MaxTasks
UnknownId == 0
Free == 0
Handler == -1

VARIABLES
    progress_store,   \* task id -> record (the registry)
    lock,             \* progress_store_lock: Free, or the thread holding it
    pc,               \* task id -> position of its background thread
    args,             \* task id -> the content the thread was started with
    locals,           \* task id -> local variables of process_data_task
    poll_id,          \* the task id of the get_progress call holding the lock
    now,              \* time.time()
    raised_stages,    \* task id -> the steps whose stage computation raised
    batch,            \* the call of process_batches_with_eta (backend/app2.py)
    analysis          \* a frame and what the association stages return for it

NoLocals ==
    [error_logs   |-> <<>>,
     start_time   |-> 0,
     current_step |-> 0,
     df_selected  |-> None,
     average_cramers_v           |-> None,
     logistic_regression_results |-> <<>>,
     decision_tree_results       |-> <<>>,
     random_forest_results       |-> <<>>,
     chi_square_results          |-> <<>>,
     multi_variable_results      |-> <<>>,
     elapsed_time |-> 0,
     eta          |-> FZero,
     message      |-> ""]

\* no frame handed to the association stages yet
NoAnalysis ==
    [pc                     |-> "idle",
     df                     |-> None,
     error_logs             |-> <<>>,
     chi_square_results     |-> None,
     multi_variable_results |-> None,
     strength               |-> None,
     interpretation         |-> None]

\* no call of process_batches_with_eta yet
NoBatch ==
    [pc               |-> "idle",
     df               |-> None,
     selected_columns |-> <<>>,
     batch_size       |-> 0,
     failing          |-> 0,
     column_pairs     |-> <<>>,
     total_pairs      |-> 0,
     batches          |-> <<>>,
     started          |-> {},
     finished         |-> {},
     eta_count        |-> 0,
     results          |-> <<>>,
     start_time       |-> 0,
     i                |-> 0,
     elapsed_time     |-> 0,
     processed_pairs  |-> 0,
     eta_seconds      |-> FZero,
     returned         |-> None]

InitRegistry ==
    /\ progress_store = <<>>
    /\ lock = Free
    /\ pc = [t \in TaskIds |-> "idle"]
    /\ args = [t \in TaskIds |-> None]
    /\ locals = [t \in TaskIds |-> NoLocals]
    /\ poll_id = UnknownId
    /\ now = 0
    /\ raised_stages = [t \in TaskIds |-> {}]
    /\ batch = NoBatch
    /\ analysis = NoAnalysis

Known(id) == id \in DOMAIN progress_store

\* an id generator that hands out the same id again
NewTaskId_Reused == CHOOSE id \in TaskIds : \A j \in TaskIds : id <= j

\* str(uuid.uuid4()): an id no record has yet
NewTaskId == CHOOSE id \in TaskIds : ~Known(id) /\ \A j \in TaskIds : j < id => Known(j)

Reply(code, body) == [code |-> code, body |-> body]

\* ------------------------------------------------------------------
\* src/app.py process_csv (POST /process)
\* ------------------------------------------------------------------
\* process_csv without the checks of lines 55-59
ValidationError_None(content) == None

\* the validation of lines 55-59: the message of the ValueError, or None
ValidationError(content) ==
    IF content.data = <<>>
    THEN Some("Input data is empty or not properly formatted.")
    ELSE IF content.selected_columns = <<>>
    THEN Some("Selected columns are missing or not in the correct format.")
    ELSE None

\* the response of process_csv
process_csv_response(content) ==
    IF ValidationError(content) # None
    THEN Reply(400, [status |-> "error", message |-> ValidationError(content)[1],
                     steps_completed |-> <<>>])
    ELSE Reply(200, [status |-> "processing", task_id |-> NewTaskId])

\* process_csv starting the thread and never storing the record
process_csv_ThreadFirst(content) ==
    /\ UNCHANGED <<lock, locals, poll_id, now, raised_stages, batch, analysis>>
    /\ IF ValidationError(content) # None
       THEN UNCHANGED <<progress_store, pc, args>>
       ELSE \E task_id \in TaskIds :
               /\ pc[task_id] = "idle"
               /\ UNCHANGED progress_store
               /\ pc' = [pc EXCEPT ![task_id] = "start"]
               /\ args' = [args EXCEPT ![task_id] = Some(content)]

process_csv(content) ==
    /\ UNCHANGED <<lock, locals, poll_id, now, raised_stages, batch, analysis>>
    /\ IF ValidationError(content) # None
       THEN UNCHANGED <<progress_store, pc, args>>
       ELSE /\ \E id \in TaskIds : ~Known(id)
            /\ LET task_id == NewTaskId IN
               /\ progress_store' = progress_store @@
                      (task_id :> [progress        |-> FZero,
                                   status          |-> "processing",
                                   steps_completed |-> <<>>,
                                   eta             |-> None,
                                   start_time      |-> now])
               \* threading.Thread(target=process_data_task, ...).start()
               /\ pc' = [pc EXCEPT ![task_id] = "start"]
               /\ args' = [args EXCEPT ![task_id] = Some(content)]

\* ------------------------------------------------------------------
\* src/app.py process_data_task, one action per step of the thread
\* ------------------------------------------------------------------
\* process_data_task without its outer try/except: the exception ends the
\* thread and the record stays as it is
Raise_Uncaught(t, message) ==
    /\ locals' = [locals EXCEPT ![t].message = message]
    /\ pc' = [pc EXCEPT ![t] = "crashed"]

\* an exception reaches the except clause of process_data_task (line 157)
Raise(t, message) ==
    /\ locals' = [locals EXCEPT ![t].message = message]
    /\ pc' = [pc EXCEPT ![t] = "except"]

\* update_progress computing 100 * current_step / total_steps instead
Progress_Reordered(current_step, total) == FDivInt(100 * current_step, total)

\* line 168: progress = (current_step / total_steps) * 100
Progress(current_step, total) == FMulInt(FDivInt(current_step, total), 100)

\* the progress update_progress computes for each of the steps
StepProgress == [current_step \in 1..total_steps |-> Progress(current_step, total_steps)]

\* the average taken over all the steps instead of the finished ones
Eta_PerTotalStep(elapsed_time, total, current_step) ==
    FMulInt(FDivInt(elapsed_time, total), total - current_step)

\* lines 178-180 of update_eta, for an elapsed time of whole seconds
Eta(elapsed_time, total, current_step) ==
    FMulInt(FDivInt(elapsed_time, current_step), total - current_step)

\* lines 107-140: what the statement of step k does for each request, and
\* what it appends to error_logs (the stages only append to the list); the
\* steps after the first run on df_selected, the frame the first step left,
\* and are not reached when the first statement raised
StageFrame ==
    [content \in Requests |->
        IF SelectRaises(content.data, content.selected_columns) THEN None
        ELSE RunStage(1, content, None, <<>>, FALSE).result]

StageOutcome ==
    [content \in Requests |-> [k \in 1..total_steps |-> [raised \in BOOLEAN |->
        LET df_selected == StageFrame[content]
        IN RunStage(IF df_selected = None THEN 1 ELSE k,
                    content, df_selected, <<>>, raised)]]]

\* the stage computations that raised so far
Faults == SumOver([t \in TaskIds |-> Cardinality(raised_stages[t])], TaskIds)

\* lines 82-105: the locals, and the unlocked read of the record
task_start(t) ==
    /\ pc[t] = "start"
    /\ IF Known(t)
       THEN /\ locals' = [locals EXCEPT ![t] =
                    [NoLocals EXCEPT !.start_time = progress_store[t].start_time,
                                     !.current_step = 1]]
            /\ pc' = [pc EXCEPT ![t] = "update_progress"]
       ELSE Raise(t, "KeyError")
    /\ UNCHANGED <<progress_store, lock, args, poll_id, now, raised_stages, batch, analysis>>

\* with progress_store_lock: (entered by the thread at position "at")
Acquire(t, at, locked) ==
    /\ pc[t] = at
    /\ lock = Free
    /\ lock' = t
    /\ pc' = [pc EXCEPT ![t] = locked]
    /\ UNCHANGED <<progress_store, args, locals, poll_id, now, raised_stages, batch, analysis>>

\* update_progress(task_id, steps[k - 1], k, total_steps)
update_progress_enter(t) == Acquire(t, "update_progress", "update_progress_locked")

\* update_progress returning without releasing the lock
update_progress_KeepsLock(t) ==
    /\ pc[t] = "update_progress_locked"
    /\ lock = t
    /\ LET current_step == locals[t].current_step
           progress == StepProgress[current_step]
       IN IF Known(t)
          THEN /\ progress_store' = [progress_store EXCEPT ![t] =
                      [f \in DOMAIN progress_store[t] \cup {"steps_completed", "progress"} |->
                          IF f = "progress" THEN progress
                          ELSE IF f = "steps_completed"
                          THEN Append(IF "steps_completed" \in DOMAIN progress_store[t]
                                      THEN progress_store[t].steps_completed ELSE <<>>,
                                      steps[current_step])
                          ELSE progress_store[t][f]]]
               /\ pc' = [pc EXCEPT ![t] = "stage"]
               /\ UNCHANGED locals
          ELSE /\ Raise(t, "KeyError")
               /\ UNCHANGED progress_store
    /\ UNCHANGED <<lock, args, poll_id, now, raised_stages, batch, analysis>>

update_progress(t) ==
    /\ pc[t] = "update_progress_locked"
    /\ lock = t
    /\ LET current_step == locals[t].current_step
           progress == StepProgress[current_step]
       IN IF Known(t)
          THEN /\ progress_store' = [progress_store EXCEPT ![t] =
                      [f \in DOMAIN progress_store[t] \cup {"steps_completed", "progress"} |->
                          IF f = "progress" THEN progress
                          ELSE IF f = "steps_completed"
                          THEN Append(IF "steps_completed" \in DOMAIN progress_store[t]
                                      THEN progress_store[t].steps_completed ELSE <<>>,
                                      steps[current_step])
                          ELSE progress_store[t][f]]]
               /\ pc' = [pc EXCEPT ![t] = "stage"]
               /\ UNCHANGED locals
          ELSE /\ Raise(t, "KeyError")
               /\ UNCHANGED progress_store
    /\ lock' = Free
    /\ UNCHANGED <<args, poll_id, now, raised_stages, batch, analysis>>

SetResult(l, k, r) ==
    CASE k = 1 -> [l EXCEPT !.df_selected = Some(r)]
      [] k = 2 -> [l EXCEPT !.average_cramers_v = r]
      [] k = 3 -> [l EXCEPT !.logistic_regression_results = r]
      [] k = 4 -> [l EXCEPT !.decision_tree_results = r]
      [] k = 5 -> [l EXCEPT !.random_forest_results = r]
      [] k = 6 -> [l EXCEPT !.chi_square_results = r]
      [] k = 7 -> [l EXCEPT !.multi_variable_results = r]

\* the stage function of step k runs outside the lock; then update_eta
\* computes the estimate (lines 177-180) before it asks for the lock
run_stage(t, raised) ==
    /\ pc[t] = "stage"
    /\ raised => Faults < MaxFaults
    /\ \E ran \in { StageOutcome[args[t][1]][locals[t].current_step][raised] } :
       LET k   == locals[t].current_step
           out == [ran EXCEPT !.error_logs = locals[t].error_logs \o @]
       IN IF out.escapes
          THEN /\ Raise(t, out.message)
               /\ raised_stages' = IF raised /\ k > 1
                                   THEN [raised_stages EXCEPT ![t] = @ \cup {k}]
                                   ELSE raised_stages
          ELSE /\ locals' = [locals EXCEPT ![t] =
                     [SetResult(locals[t], k, out.result) EXCEPT
                         !.error_logs = out.error_logs,
                         !.elapsed_time = now - locals[t].start_time,
                         !.eta = Eta(now - locals[t].start_time, total_steps, k)]]
               /\ pc' = [pc EXCEPT ![t] = "update_eta"]
               /\ raised_stages' = IF raised
                                   THEN [raised_stages EXCEPT ![t] = @ \cup {k}]
                                   ELSE raised_stages
    /\ UNCHANGED <<progress_store, lock, args, poll_id, now, batch, analysis>>

update_eta_enter(t) == Acquire(t, "update_eta", "update_eta_locked")

\* update_eta computing the estimate without storing it
update_eta_NoStore(t) ==
    /\ pc[t] = "update_eta_locked"
    /\ lock = t
    /\ IF locals[t].current_step < total_steps
       THEN /\ locals' = [locals EXCEPT ![t].current_step = @ + 1]
            /\ pc' = [pc EXCEPT ![t] = "update_progress"]
       ELSE /\ pc' = [pc EXCEPT ![t] = "finalize"]
            /\ UNCHANGED locals
    /\ lock' = Free
    /\ UNCHANGED <<progress_store, args, poll_id, now, raised_stages, batch, analysis>>

update_eta(t) ==
    /\ pc[t] = "update_eta_locked"
    /\ lock = t
    /\ IF Known(t)
       THEN /\ progress_store' = [progress_store EXCEPT ![t] =
                   [f \in DOMAIN progress_store[t] \cup {"eta"} |->
                       IF f = "eta" THEN Some(locals[t].eta) ELSE progress_store[t][f]]]
            /\ IF locals[t].current_step < total_steps
               THEN /\ locals' = [locals EXCEPT ![t].current_step = @ + 1]
                    /\ pc' = [pc EXCEPT ![t] = "update_progress"]
               ELSE /\ pc' = [pc EXCEPT ![t] = "finalize"]
                    /\ UNCHANGED locals
       ELSE Raise(t, "KeyError")
            /\ UNCHANGED progress_store
    /\ lock' = Free
    /\ UNCHANGED <<args, poll_id, now, raised_stages, batch, analysis>>

\* lines 142-156: the final result
finalize_enter(t) == Acquire(t, "finalize", "finalize_locked")

\* the final result stored as the registry's only record
finalize_success_Alone(t) ==
    /\ pc[t] = "finalize_locked"
    /\ lock = t
    /\ progress_store' = (t :> [status          |-> "success",
                                progress        |-> FInt(100),
                                steps_completed |-> steps,
                                eta             |-> Some(FZero),
                                average_cramers_v           |-> locals[t].average_cramers_v,
                                logistic_regression_results |-> locals[t].logistic_regression_results,
                                decision_tree_results       |-> locals[t].decision_tree_results,
                                random_forest_results       |-> locals[t].random_forest_results,
                                chi_square_results          |-> locals[t].chi_square_results,
                                multi_variable_results      |-> locals[t].multi_variable_results,
                                error_logs      |-> locals[t].error_logs])
    /\ pc' = [pc EXCEPT ![t] = "done"]
    /\ lock' = Free
    /\ UNCHANGED <<args, locals, poll_id, now, raised_stages, batch, analysis>>

finalize_success(t) ==
    /\ pc[t] = "finalize_locked"
    /\ lock = t
    /\ progress_store' = (t :> [status          |-> "success",
                                progress        |-> FInt(100),
                                steps_completed |-> steps,
                                eta             |-> Some(FZero),
                                average_cramers_v           |-> locals[t].average_cramers_v,
                                logistic_regression_results |-> locals[t].logistic_regression_results,
                                decision_tree_results       |-> locals[t].decision_tree_results,
                                random_forest_results       |-> locals[t].random_forest_results,
                                chi_square_results          |-> locals[t].chi_square_results,
                                multi_variable_results      |-> locals[t].multi_variable_results,
                                error_logs      |-> locals[t].error_logs])
                         @@ progress_store
    /\ pc' = [pc EXCEPT ![t] = "done"]
    /\ lock' = Free
    /\ UNCHANGED <<args, locals, poll_id, now, raised_stages, batch, analysis>>

\* lines 157-165: the except clause of the task
except_enter(t) == Acquire(t, "except", "except_locked")

\* the except clause writing a record without error_logs
finalize_error_NoLogs(t) ==
    /\ pc[t] = "except_locked"
    /\ lock = t
    /\ IF Known(t)
       THEN /\ progress_store' = [progress_store EXCEPT ![t] =
                   [status          |-> "error",
                    message         |-> locals[t].message,
                    steps_completed |-> progress_store[t].steps_completed]]
            /\ pc' = [pc EXCEPT ![t] = "done"]
       ELSE /\ pc' = [pc EXCEPT ![t] = "crashed"]
            /\ UNCHANGED progress_store
    /\ lock' = Free
    /\ UNCHANGED <<args, locals, poll_id, now, raised_stages, batch, analysis>>

finalize_error(t) ==
    /\ pc[t] = "except_locked"
    /\ lock = t
    /\ IF Known(t)
       THEN /\ progress_store' = [progress_store EXCEPT ![t] =
                   [status          |-> "error",
                    message         |-> locals[t].message,
                    steps_completed |-> IF "steps_completed" \in DOMAIN progress_store[t]
                                        THEN progress_store[t].steps_completed ELSE <<>>,
                    error_logs      |-> locals[t].error_logs]]
            /\ pc' = [pc EXCEPT ![t] = "done"]
       ELSE \* the handler raises KeyError itself and the thread dies
            /\ pc' = [pc EXCEPT ![t] = "crashed"]
            /\ UNCHANGED progress_store
    /\ lock' = Free
    /\ UNCHANGED <<args, locals, poll_id, now, raised_stages, batch, analysis>>

\* ------------------------------------------------------------------
\* src/app.py get_progress (GET /progress/<task_id>)
\* ------------------------------------------------------------------
get_progress_enter(task_id) ==
    /\ lock = Free
    /\ lock' = Handler
    /\ poll_id' = task_id
    /\ UNCHANGED <<progress_store, pc, args, locals, now, raised_stages, batch, analysis>>

\* get_progress resetting steps_completed whether or not the key is there
PolledRecord_AlwaysReset(task_id) ==
    [f \in DOMAIN progress_store[task_id] \cup {"steps_completed"} |->
        IF f = "steps_completed" THEN <<>> ELSE progress_store[task_id][f]]

\* the record get_progress finds, after the repair of line 192
PolledRecord(task_id) ==
    IF "steps_completed" \notin DOMAIN progress_store[task_id]
    THEN [f \in DOMAIN progress_store[task_id] \cup {"steps_completed"} |->
             IF f = "steps_completed" THEN <<>> ELSE progress_store[task_id][f]]
    ELSE progress_store[task_id]

\* the response of get_progress
get_progress_response(task_id) ==
    IF ~Known(task_id)
    THEN Reply(404, [status |-> "error", message |-> "Invalid task ID.",
                     steps_completed |-> <<>>])
    ELSE Reply(200, PolledRecord(task_id))

get_progress ==
    /\ lock = Handler
    /\ progress_store' = IF Known(poll_id)
                         THEN [progress_store EXCEPT ![poll_id] = PolledRecord(poll_id)]
                         ELSE progress_store
    /\ lock' = Free
    /\ poll_id' = UnknownId
    /\ UNCHANGED <<pc, args, locals, now, raised_stages, batch, analysis>>

\* ------------------------------------------------------------------
\* The registry specification
\* ------------------------------------------------------------------
vars == <<progress_store, lock, pc, args, locals, poll_id, now, raised_stages, batch,
         analysis>>

Init == InitRegistry

Next ==
    \/ \E content \in Requests : process_csv(content)
    \/ \E t \in TaskIds : task_start(t)
    \/ \E t \in TaskIds : update_progress_enter(t)
    \/ \E t \in TaskIds : update_progress(t)
    \/ \E t \in TaskIds : \E raised \in BOOLEAN : run_stage(t, raised)
    \/ \E t \in TaskIds : update_eta_enter(t)
    \/ \E t \in TaskIds : update_eta(t)
    \/ \E t \in TaskIds : finalize_enter(t)
    \/ \E t \in TaskIds : finalize_success(t)
    \/ \E t \in TaskIds : except_enter(t)
    \/ \E t \in TaskIds : finalize_error(t)
    \/ \E task_id \in TaskIds \cup {UnknownId} : get_progress_enter(task_id)
    \/ get_progress

Spec == Init /\ [][Next]_vars

\* Fair scheduling: every thread that can take a step infinitely often takes
\* it (a thread waiting for the lock gets it if it is free again and again),
\* and a request holding the lock finishes.
TaskStep(t) ==
    \/ task_start(t)
    \/ update_progress_enter(t)
    \/ update_progress(t)
    \/ \E raised \in BOOLEAN : run_stage(t, raised)
    \/ update_eta_enter(t)
    \/ update_eta(t)
    \/ finalize_enter(t)
    \/ finalize_success(t)
    \/ except_enter(t)
    \/ finalize_error(t)

FairSpec ==
    /\ Spec
    /\ \A t \in TaskIds : SF_vars(TaskStep(t))
    /\ WF_vars(get_progress)

\* ------------------------------------------------------------------
\* src/src/backend/app2.py: the pairwise analysis in batches
\* ------------------------------------------------------------------
\* analyze_categorical_relationship: of the analysis it returns, the degrees
\* of freedom and the number of observations
analyze_categorical_relationship(df, col1, col2) ==
    LET contingency == crosstab(df, col1, col2)
    IN Some([dof |-> (Cardinality(contingency.index) - 1)
                         * (Cardinality(contingency.columns) - 1),
             total_observations |-> TableTotal(contingency)])

\* calculate_cramers_v_with_details on two columns other than 'NCEA Results'
calculate_cramers_v_with_details(df, col1, col2) ==
    LET contingency == crosstab(df, col1, col2)
        detailed_analysis == analyze_categorical_relationship(df, col1, col2)
        chi2 == chi2_contingency(contingency, FALSE)
        n == TableTotal(contingency)
        min_dim == MinDim(contingency)
    IN IF min_dim <= 0
       THEN [cramer_v |-> Num(0), details |-> None]
       ELSE [cramer_v |-> CramersV(chi2, n, min_dim), details |-> detailed_analysis]

\* df[col].values has two dimensions when the name occurs twice in the frame;
\* pd.Series raises on it
TwoDimensional(df, col) ==
    Cardinality({ i \in 1..Len(df.columns) : df.columns[i] = col }) > 1

\* process_pair (the second definition, line 210); raises says that the
\* computation inside its try block raises
process_pair(df, col1, col2, raises) ==
    IF raises \/ TwoDimensional(df, col1) \/ TwoDimensional(df, col2)
    THEN [col1 |-> col1, col2 |-> col2, value |-> Num(0), details |-> None]
    ELSE LET r == calculate_cramers_v_with_details(df, col1, col2)
         IN [col1 |-> col1, col2 |-> col2, value |-> r.cramer_v, details |-> r.details]

\* the dataset and the calls of the batch specification
ColC == <<"c">>
ColD == <<"d">>
ColE == <<"e">>
BatchRow(a, a2, b, k, c, d, e) ==
    SampleRow(a, a2, b, k) @@ (ColC :> c) @@ (ColD :> d) @@ (ColE :> e)
BatchData == << BatchRow(0, 0, 0, 5, 0, 0, 1), BatchRow(0, 1, 0, 5, 1, 1, 2),
                BatchRow(1, 0, 1, 5, 2, 1, 3), BatchRow(1, 1, 1, 5, 0, 1, 4) >>
BatchSelections ==
    { <<ColA, ColA2, ColB, ColK, ColC, ColD, ColE>>,
      <<ColA, ColB, ColK>>, <<ColA, ColA2>>, <<ColA, ColA, ColB>>, <<ColA>> }
BatchSizes == { 2, 5, 20 }
MaxTime == 2

\* process_batches_with_eta lines 233-246; failing is the position in
\* column_pairs of the one pair whose worker raises (0: none does)
process_batches_with_eta(selected_columns, batch_size, failing) ==
    /\ batch.pc = "idle"
    /\ IF Len(selected_columns) < 2
       THEN /\ failing = 0
            /\ batch' = [batch EXCEPT !.pc = "raised",
                                      !.selected_columns = selected_columns,
                                      !.batch_size = batch_size]
       ELSE LET column_pairs == combinations(selected_columns, 2) IN
            /\ failing \in 0..Len(column_pairs)
            /\ batch' = [batch EXCEPT
                            !.pc = "loop",
                            !.df = Some(SelectColumns(BatchData, selected_columns)),
                            !.selected_columns = selected_columns,
                            !.batch_size = batch_size,
                            !.failing = failing,
                            !.column_pairs = column_pairs,
                            !.total_pairs = Len(column_pairs),
                            !.start_time = now]
    /\ UNCHANGED <<progress_store, lock, pc, args, locals, poll_id, now, raised_stages, analysis>>

\* the estimate scaled by all the pairs instead of the remaining ones
BatchEta_TimesTotal(elapsed_time, processed_pairs, remaining_pairs) ==
    IF processed_pairs > 0
    THEN FMulInt(FDivInt(elapsed_time, processed_pairs), remaining_pairs + processed_pairs)
    ELSE FZero

\* line 259: eta_seconds, for an elapsed time of whole seconds
BatchEta(elapsed_time, processed_pairs, remaining_pairs) ==
    IF processed_pairs > 0
    THEN FMulInt(FDivInt(elapsed_time, processed_pairs), remaining_pairs)
    ELSE FZero

\* a slice that starts one item early
BatchSlice_Overlap(column_pairs, i, batch_size) ==
    SubSeq(column_pairs, Max2(i, 1), Min2(i + batch_size, Len(column_pairs)))

\* line 248: column_pairs[i:i + batch_size]
BatchSlice(column_pairs, i, batch_size) ==
    SubSeq(column_pairs, i + 1, Min2(i + batch_size, Len(column_pairs)))

\* lines 248-262 for the record b of the call: the slice, the results of its
\* items in their order, and the estimate at the given time
CollectBatch(b, time) ==
    LET i == b.i
        processed_pairs == Min2(i + b.batch_size, b.total_pairs)
        batch_pairs == BatchSlice(b.column_pairs, i, b.batch_size)
        batch_results ==
            [j \in 1..Len(batch_pairs) |->
                process_pair(b.df[1], batch_pairs[j][1], batch_pairs[j][2],
                             i + j = b.failing)]
        elapsed_time == time - b.start_time
        remaining_pairs == b.total_pairs - processed_pairs
        eta_seconds == BatchEta(elapsed_time, processed_pairs, remaining_pairs)
    IN [b EXCEPT !.batches = Append(@, batch_pairs),
                 !.results = @ \o batch_results,
                 !.elapsed_time = elapsed_time,
                 !.processed_pairs = processed_pairs,
                 !.eta_seconds = eta_seconds,
                 !.eta_count = @ + 1,
                 !.i = i + b.batch_size]

\* the positions in column_pairs of the items of the current slice
SlicePositions(b) == (b.i + 1)..Min2(b.i + b.batch_size, b.total_pairs)

\* one whole turn of the loop: the slice goes through the workers, then
\* lines 256-262
process_batch ==
    /\ batch.pc = "loop"
    /\ batch.i < batch.total_pairs
    /\ \E collected \in { CollectBatch(batch, now) } :
         batch' = [collected EXCEPT !.started = @ \cup SlicePositions(batch),
                                    !.finished = @ \cup SlicePositions(batch)]
    /\ UNCHANGED <<progress_store, lock, pc, args, locals, poll_id, now, raised_stages, analysis>>

\* lines 269-277: valid_results, the average (in thousandths, rounded down)
\* and the returned dictionary
BatchSummary(results) ==
    LET Valid(r) == r.value # None /\ ~isnan(r.value)
        valid_results == SelectSeq(results, Valid)
        total == SumOver([j \in 1..Len(valid_results) |-> valid_results[j].value.val],
                         1..Len(valid_results))
    IN [average_cramers_v |-> IF valid_results # <<>>
                              THEN Num(total \div Len(valid_results))
                              ELSE Num(0),
        valid_pairs |-> Len(valid_results),
        pairs       |-> results]

process_batches_return ==
    /\ batch.pc = "loop"
    /\ batch.i >= batch.total_pairs
    /\ batch' = [batch EXCEPT !.pc = "returned",
                              !.returned = Some(BatchSummary(batch.results))]
    /\ UNCHANGED <<progress_store, lock, pc, args, locals, poll_id, now, raised_stages, analysis>>

\* time.time() moves on
Tick ==
    /\ now < MaxTime
    /\ now' = now + 1
    /\ UNCHANGED <<progress_store, lock, pc, args, locals, poll_id, raised_stages, batch, analysis>>

BatchNext ==
    \/ \E selected_columns \in BatchSelections : \E batch_size \in BatchSizes :
         \E failing \in 0..(Len(selected_columns) * Len(selected_columns)) :
           process_batches_with_eta(selected_columns, batch_size, failing)
    \/ process_batch
    \/ process_batches_return
    \/ Tick

BatchSpec == Init /\ [][BatchNext]_vars

\* ------------------------------------------------------------------
\* src/src/backend/app2.py: the loop of process_batches_with_eta with the
\* workers of Parallel(n_jobs=-1) taking the items of a slice one by one
\* ------------------------------------------------------------------
MaxWorkers == 2

\* line 251: the call of Parallel begins with the slice of line 248
parallel_begin ==
    /\ batch.pc = "loop"
    /\ batch.i < batch.total_pairs
    /\ batch' = [batch EXCEPT !.pc = "parallel"]
    /\ UNCHANGED <<progress_store, lock, pc, args, locals, poll_id, now, raised_stages, analysis>>

\* a free worker takes the next item of the slice: process_pair starts
worker_start ==
    /\ batch.pc = "parallel"
    /\ Cardinality(batch.started \ batch.finished) < MaxWorkers
    /\ \E p \in SlicePositions(batch) \ batch.started :
         /\ \A q \in SlicePositions(batch) \ batch.started : p <= q
         /\ batch' = [batch EXCEPT !.started = @ \cup {p}]
    /\ UNCHANGED <<progress_store, lock, pc, args, locals, poll_id, now, raised_stages, analysis>>

\* process_pair returns for the item at position p
worker_finish(p) ==
    /\ p \in batch.started \ batch.finished
    /\ batch' = [batch EXCEPT !.finished = @ \cup {p}]
    /\ UNCHANGED <<progress_store, lock, pc, args, locals, poll_id, now, raised_stages, analysis>>

\* Parallel returning as soon as one item of the slice is done
BatchDone_AnyFinished(b) == SlicePositions(b) \cap b.finished # {}

\* Parallel(...)(...) returns when every item of the slice has returned
BatchDone(b) == SlicePositions(b) \subseteq b.finished

\* lines 256-262: results.extend and the estimate
parallel_end ==
    /\ batch.pc = "parallel"
    /\ BatchDone(batch)
    /\ \E collected \in { CollectBatch(batch, now) } :
         batch' = [collected EXCEPT !.pc = "loop"]
    /\ UNCHANGED <<progress_store, lock, pc, args, locals, poll_id, now, raised_stages, analysis>>

WorkerNext ==
    \/ \E selected_columns \in BatchSelections : \E batch_size \in BatchSizes :
         \E failing \in {0, 1} :
           process_batches_with_eta(selected_columns, batch_size, failing)
    \/ parallel_begin
    \/ worker_start
    \/ \E p \in batch.started : worker_finish(p)
    \/ parallel_end
    \/ process_batches_return

WorkerSpec == Init /\ [][WorkerNext]_vars

\* ------------------------------------------------------------------
\* src/app.py: the two association stages applied to a frame of distinct
\* columns of the dataset (what process_data_task hands them as df_selected)
\* ------------------------------------------------------------------
MaxColumns == 3
AnalysisColumns == <<ColA, ColA2, ColB, ColK, ColC, ColD, ColE>>
AnalysisSelections ==
    { s \in UNION { [1..n -> Range(AnalysisColumns)] : n \in 1..MaxColumns } :
        \A i, j \in DOMAIN s : s[i] = s[j] => i = j }

\* pd.DataFrame(data)[selected_columns]
analysis_frame(selected_columns) ==
    /\ analysis.pc = "idle"
    /\ analysis' = [analysis EXCEPT !.pc = "frame",
                                    !.df = Some(SelectColumns(BatchData, selected_columns))]
    /\ UNCHANGED <<progress_store, lock, pc, args, locals, poll_id, now, raised_stages, batch>>

\* chi_square_results = chi_square_tests(df_selected, error_logs)
apply_chi_square_tests ==
    /\ analysis.pc = "frame"
    /\ analysis.chi_square_results = None
    /\ \E ran \in { chi_square_tests(analysis.df[1], analysis.error_logs) } :
         analysis' = [analysis EXCEPT !.chi_square_results = Some(ran.result),
                                      !.error_logs = ran.error_logs]
    /\ UNCHANGED <<progress_store, lock, pc, args, locals, poll_id, now, raised_stages, batch>>

\* multi_variable_results = multi_variable_analysis(df_selected, error_logs)
apply_multi_variable_analysis ==
    /\ analysis.pc = "frame"
    /\ analysis.multi_variable_results = None
    /\ \E ran \in { multi_variable_analysis(analysis.df[1], analysis.error_logs) } :
         analysis' = [analysis EXCEPT !.multi_variable_results = Some(ran.result),
                                      !.error_logs = ran.error_logs]
    /\ UNCHANGED <<progress_store, lock, pc, args, locals, poll_id, now, raised_stages, batch>>

AnalysisNext ==
    \/ \E selected_columns \in AnalysisSelections : analysis_frame(selected_columns)
    \/ apply_chi_square_tests
    \/ apply_multi_variable_analysis

AnalysisSpec == Init /\ [][AnalysisNext]_vars

\* ------------------------------------------------------------------
\* src/app.py interpret_cramers_v applied to a strength between 0 and 1 (in
\* thousandths) or to NaN
\* ------------------------------------------------------------------
Strengths == { Num(n) : n \in 0..Scale } \cup { NaN }

apply_interpret_cramers_v(v) ==
    /\ analysis.pc = "idle"
    /\ analysis' = [analysis EXCEPT !.pc = "label",
                                    !.strength = Some(v),
                                    !.interpretation = Some(interpret_cramers_v(v))]
    /\ UNCHANGED <<progress_store, lock, pc, args, locals, poll_id, now, raised_stages, batch>>

LabelNext == \E v \in Strengths : apply_interpret_cramers_v(v)

LabelSpec == Init /\ [][LabelNext]_vars

\* ------------------------------------------------------------------
\* src/app.py: one submission and its thread, with time.time() moving
\* ------------------------------------------------------------------
ClockNext ==
    \/ \E content \in Requests : progress_store = <<>> /\ process_csv(content)
    \/ \E t \in TaskIds : task_start(t)
    \/ \E t \in TaskIds : update_progress_enter(t)
    \/ \E t \in TaskIds : update_progress(t)
    \/ \E t \in TaskIds : \E raised \in BOOLEAN : run_stage(t, raised)
    \/ \E t \in TaskIds : update_eta_enter(t)
    \/ \E t \in TaskIds : update_eta(t)
    \/ \E t \in TaskIds : finalize_enter(t)
    \/ \E t \in TaskIds : finalize_success(t)
    \/ \E t \in TaskIds : except_enter(t)
    \/ \E t \in TaskIds : finalize_error(t)
    \/ Tick

ClockSpec == Init /\ [][ClockNext]_vars

\* ------------------------------------------------------------------
\* Properties of the registry and the pipeline
\* ------------------------------------------------------------------
Status(t) == progress_store[t].status
Terminal(t) == Known(t) /\ Status(t) \in {"success", "error"}
Processing(t) == Known(t) /\ Status(t) = "processing"

\* the local variable and the record field that hold the result of step k
LocalResult(l, k) ==
    CASE k = 2 -> l.average_cramers_v
      [] k = 3 -> l.logistic_regression_results
      [] k = 4 -> l.decision_tree_results
      [] k = 5 -> l.random_forest_results
      [] k = 6 -> l.chi_square_results
      [] k = 7 -> l.multi_variable_results
RecordResult(r, k) ==
    CASE k = 2 -> r.average_cramers_v
      [] k = 3 -> r.logistic_regression_results
      [] k = 4 -> r.decision_tree_results
      [] k = 5 -> r.random_forest_results
      [] k = 6 -> r.chi_square_results
      [] k = 7 -> r.multi_variable_results
ResultFields == { "average_cramers_v", "logistic_regression_results",
                  "decision_tree_results", "random_forest_results",
                  "chi_square_results", "multi_variable_results" }
EmptyResult(k) == IF k = 2 THEN None ELSE <<>>

\* C1 (as claimed): while a task is processing, its progress equals exactly
\* 100 * (number of names in steps_completed) / 7.
C1_ProgressIsHundredTimesStepsOverSeven ==
    \A t \in DOMAIN progress_store :
        Processing(t) =>
            progress_store[t].progress
                = FDivInt(100 * Len(progress_store[t].steps_completed), 7)

C1_ProgressTracksSteps ==
    \A t \in DOMAIN progress_store :
        Processing(t) =>
            progress_store[t].progress
                = FMulInt(FDivInt(Len(progress_store[t].steps_completed), 7), 100)

C1_ProgressStep ==
    \A t \in DOMAIN progress_store :
        Processing(t) /\ progress_store'[t].status = "processing" =>
            FLeq(progress_store[t].progress, progress_store'[t].progress)

\* C1 (amended): within one task the progress never decreases while the
\* status is 'processing', and after each update_progress call it is the
\* float (n / 7) * 100, division first, for the n names in steps_completed.
C1_ProgressMonotoneAndTracksSteps ==
    [](C1_ProgressTracksSteps) /\ [][C1_ProgressStep]_vars

\* C1 witness: update_progress has just recorded the first step, the case in
\* which (1 / 7) * 100 and 100 * 1 / 7 are different floats.
C1_Witness ==
    \E t \in DOMAIN progress_store :
        /\ pc[t] = "stage"
        /\ Processing(t)
        /\ Len(progress_store[t].steps_completed) = 1

\* C2: once a record's status is 'success' or 'error', no step of any thread
\* or request changes the record.
C2_TerminalAbsorbing ==
    [][\A t \in DOMAIN progress_store :
          Terminal(t) => t \in DOMAIN progress_store' /\ progress_store'[t] = progress_store[t]]_vars

\* C2 witness: one task is terminal while another one has gone on and the
\* terminal one is being polled.
C2_Witness ==
    \E t, u \in DOMAIN progress_store :
        /\ Terminal(t)
        /\ Processing(u)
        /\ Len(progress_store[u].steps_completed) >= 2
        /\ lock = Handler
        /\ poll_id = t

\* C3: every read and write of progress_store is made by the holder of
\* progress_store_lock: the registry changes only while the lock is held, and
\* the thread's first read of its record is made holding the lock.
C3_EveryAccessHoldsLock ==
    [][/\ progress_store' # progress_store => lock # Free
       /\ \A t \in TaskIds : pc[t] = "start" /\ pc'[t] # "start" => lock = t]_vars

\* C4: every task that was created eventually reaches 'success' or 'error'.
C4_EveryTaskTerminates ==
    \A t \in TaskIds : Known(t) ~> Terminal(t)

\* C4 witness: two tasks ran and both are terminal, one after a stage of it
\* raised, one in error.
C4_Witness ==
    \E t, u \in DOMAIN progress_store :
        /\ Status(t) = "success"
        /\ raised_stages[t] # {}
        /\ Status(u) = "error"

\* C5: when the computation of an analytical stage (steps 2 to 7) raised, its
\* message is in error_logs, the stage's result is empty, the task goes on
\* through the later steps in order and ends with status 'success', the
\* record holding the message and the empty result.
C5_StageFailureDegrades ==
    \A t \in TaskIds : \A k \in raised_stages[t] \cap (2..total_steps) :
        /\ StageErrorMessage(k) \in Range(locals[t].error_logs)
        /\ LocalResult(locals[t], k) = EmptyResult(k)
        /\ pc[t] \in {"update_eta", "update_eta_locked", "update_progress",
                      "update_progress_locked", "stage", "finalize",
                      "finalize_locked", "done"}
        /\ locals[t].current_step >= k
        /\ Processing(t) =>
               LET done == progress_store[t].steps_completed
               IN /\ done = SubSeq(steps, 1, Len(done))
                  /\ Len(done) >= k
                  /\ Len(done) \in {locals[t].current_step - 1, locals[t].current_step}
        /\ pc[t] = "done" =>
               /\ Status(t) = "success"
               /\ progress_store[t].steps_completed = steps
               /\ StageErrorMessage(k) \in Range(progress_store[t].error_logs)
               /\ RecordResult(progress_store[t], k) = EmptyResult(k)

\* C5 witness: the first analytical stage raised and the task has ended.
C5_Witness ==
    \E t \in TaskIds : 2 \in raised_stages[t] /\ pc[t] = "done"

\* the dataset or the selection of the request is invalid
UsableColumns(content) ==
    LET InData(c) == c \in DataColumns(content.data)
    IN SelectSeq(content.selected_columns, InData)
InvalidRequest(content) ==
    \/ content.data = <<>>
    \/ content.selected_columns = <<>>
    \/ SelectRaises(content.data, content.selected_columns)
    \/ Len(UsableColumns(content)) < 2

\* C6 (as claimed): a task whose request fails validation (empty dataset,
\* empty or invalid selection, fewer than 2 usable columns) ends in a
\* terminal 'error' record that holds no analysis results.
C6_InvalidRequestEndsInError ==
    \A t \in TaskIds :
        pc[t] = "done" /\ InvalidRequest(args[t][1]) =>
            /\ Status(t) = "error"
            /\ DOMAIN progress_store[t] \cap ResultFields = {}

\* C6 (amended): a request with an empty dataset or an empty selection gets
\* no task at all; a selected name that is no column of the dataset is
\* fatal: the task stops in its first step and ends in an 'error' record with
\* no analysis results; fewer than 2 usable columns is not fatal: the stages
\* log it and the task ends in 'success'.
C6_ValidationPolicy ==
    \A t \in TaskIds :
        /\ Known(t) <=> args[t] # None
        /\ args[t] # None =>
             LET content == args[t][1] IN
             /\ content.data # <<>> /\ content.selected_columns # <<>>
             /\ SelectRaises(content.data, content.selected_columns) =>
                  /\ locals[t].current_step <= 1
                  /\ pc[t] \in {"start", "update_progress", "update_progress_locked",
                                "stage", "except", "except_locked", "done"}
                  /\ pc[t] = "done" =>
                       /\ Status(t) = "error"
                       /\ DOMAIN progress_store[t]
                              = {"status", "message", "steps_completed", "error_logs"}
                       /\ progress_store[t].steps_completed = <<steps[1]>>
             /\ ( /\ ~SelectRaises(content.data, content.selected_columns)
                  /\ Len(content.selected_columns) < 2
                  /\ pc[t] = "done" ) =>
                  /\ Status(t) = "success"
                  /\ raised_stages[t] = {} =>
                       "Not enough variables for chi-square tests."
                           \in Range(progress_store[t].error_logs)

\* C6 witness: a task with a missing column and a task with a single column
\* have both ended.
C6_Witness ==
    \E t, u \in TaskIds :
        /\ pc[t] = "done" /\ pc[u] = "done"
        /\ SelectRaises(args[t][1].data, args[t][1].selected_columns)
        /\ Len(args[u][1].selected_columns) = 1
        /\ Status(u) = "success"

\* ------------------------------------------------------------------
\* Properties of the pairwise analysis in batches and of the rankings
\* ------------------------------------------------------------------
Distinct(seq) == Cardinality(Range(seq)) = Len(seq)
Absent(value) == value = None \/ isnan(value)

\* the result of the pair at position j of column_pairs when no worker raises
Unfailed(j) ==
    process_pair(batch.df[1], batch.column_pairs[j][1], batch.column_pairs[j][2], FALSE)

\* C7: when the worker raised for exactly one item, the call still returns
\* one result per item, the results of the other items are what they are
\* without the failure, and the failing item's result is absent and is not
\* counted among the valid results.
C7_OneFailureIsIsolated ==
    ( /\ batch.pc = "returned"
      /\ batch.failing # 0
      /\ Distinct(batch.selected_columns) ) =>
        LET out == batch.returned[1]
            siblings == (1..batch.total_pairs) \ {batch.failing}
        IN /\ Len(out.pairs) = batch.total_pairs
           /\ \A j \in siblings : out.pairs[j] = Unfailed(j)
           /\ Absent(out.pairs[batch.failing].value)
           /\ out.valid_pairs = Cardinality({ j \in siblings : ~Absent(out.pairs[j].value) })

\* the pair at position j of column_pairs has a degenerate contingency table
Degenerate(j) ==
    MinDim(crosstab(batch.df[1], batch.column_pairs[j][1], batch.column_pairs[j][2])) = 0

\* C8: a pair whose contingency table is degenerate adds nothing to the sum
\* and is not counted in the number of valid pairs of process_batches_with_eta.
C8_DegeneratePairsAreExcluded ==
    ( /\ batch.pc = "returned"
      /\ batch.failing = 0
      /\ Distinct(batch.selected_columns) ) =>
        LET out == batch.returned[1]
            computable == { j \in 1..batch.total_pairs : ~Degenerate(j) }
        IN /\ out.valid_pairs = Cardinality(computable)
           /\ \A j \in 1..batch.total_pairs :
                  Degenerate(j) => Absent(out.pairs[j].value)

\* C9: no entry of chi_square_results or multi_variable_results, in the
\* thread or in the final record, carries a NaN strength.
C9_NoNotComputableInRankings ==
    \A t \in TaskIds :
        /\ \A j \in 1..Len(locals[t].chi_square_results) :
               ~isnan(locals[t].chi_square_results[j].cramers_v)
        /\ \A j \in 1..Len(locals[t].multi_variable_results) :
               ~isnan(locals[t].multi_variable_results[j].cramers_v)
        /\ (Known(t) /\ Status(t) = "success") =>
               /\ \A j \in 1..Len(progress_store[t].chi_square_results) :
                      ~isnan(progress_store[t].chi_square_results[j].cramers_v)
               /\ \A j \in 1..Len(progress_store[t].multi_variable_results) :
                      ~isnan(progress_store[t].multi_variable_results[j].cramers_v)

\* C10: the work list of process_batches_with_eta for n selected names holds
\* exactly n * (n - 1) / 2 pairs, no pair twice in either order, and no pair
\* with the same column on both sides.
C10_PairwiseEnumeration ==
    batch.pc \in {"loop", "returned"} =>
        LET n == Len(batch.selected_columns)
            pairs == batch.column_pairs
        IN /\ Len(pairs) = (n * (n - 1)) \div 2
           /\ \A i, j \in 1..Len(pairs) :
                  i # j => /\ pairs[i] # pairs[j]
                           /\ pairs[i] # <<pairs[j][2], pairs[j][1]>>
           /\ \A i \in 1..Len(pairs) : pairs[i][1] # pairs[i][2]

\* ------------------------------------------------------------------
\* Properties of the association stages
\* ------------------------------------------------------------------
Prefixes(cols) == { Prefix(cols[j]) : j \in 1..Len(cols) }

\* C11: every entry of multi_variable_results, and every column pair that
\* chi_square_tests compares or reports, has columns of at least two distinct
\* prefix groups (prefix = the text before the first '_').
C11_NoComparisonWithinOneGroup ==
    analysis.pc = "frame" =>
        /\ \A j \in 1..Len(ChiSquarePairs(analysis.df[1].columns)) :
             Cardinality(Prefixes(ChiSquarePairs(analysis.df[1].columns)[j])) >= 2
        /\ analysis.chi_square_results # None =>
             \A j \in 1..Len(analysis.chi_square_results[1]) :
                LET r == analysis.chi_square_results[1][j]
                IN Prefix(r.variable_1) # Prefix(r.variable_2)
        /\ analysis.multi_variable_results # None =>
             \A j \in 1..Len(analysis.multi_variable_results[1]) :
                Cardinality(Prefixes(analysis.multi_variable_results[1][j].variables)) >= 2

\* both stages have run on a frame holding two columns of the group 'a' and a
\* column of another group, and both report entries
C11_Witness ==
    /\ analysis.pc = "frame"
    /\ {ColA, ColA2} \subseteq Range(analysis.df[1].columns)
    /\ analysis.chi_square_results # None
    /\ analysis.chi_square_results[1] # <<>>
    /\ analysis.multi_variable_results # None
    /\ analysis.multi_variable_results[1] # <<>>

\* no entry is followed, anywhere later in the list, by a stronger one
StrengthsDescending(vs) == \A i, j \in 1..Len(vs) : i < j => ~Lt(vs[i], vs[j])
StrengthsOf(results) == [j \in 1..Len(results) |-> results[j].cramers_v]

\* C12: every association result list handed to the caller is in
\* non-increasing order of strength: chi_square_results and
\* multi_variable_results of a success record (and of the stages that build
\* them), and the 'pairs' list returned by process_batches_with_eta.
C12_ResultListsSortedByStrength ==
    /\ \A t \in TaskIds :
         Known(t) /\ Status(t) = "success" =>
            /\ StrengthsDescending(StrengthsOf(progress_store[t].chi_square_results))
            /\ StrengthsDescending(StrengthsOf(progress_store[t].multi_variable_results))
    /\ analysis.chi_square_results # None =>
         StrengthsDescending(StrengthsOf(analysis.chi_square_results[1]))
    /\ analysis.multi_variable_results # None =>
         StrengthsDescending(StrengthsOf(analysis.multi_variable_results[1]))
    /\ batch.returned # None =>
         StrengthsDescending([j \in 1..Len(batch.returned[1].pairs) |->
                                 batch.returned[1].pairs[j].value])

\* the part of C12 about the two stages of src/app.py
C12_StageListsSorted ==
    /\ analysis.chi_square_results # None =>
         StrengthsDescending(StrengthsOf(analysis.chi_square_results[1]))
    /\ analysis.multi_variable_results # None =>
         StrengthsDescending(StrengthsOf(analysis.multi_variable_results[1]))

\* ------------------------------------------------------------------
\* Properties of polling and submission
\* ------------------------------------------------------------------
\* the response to a poll of an id that has no record
NotFound == get_progress_response(UnknownId)

C13_NotFoundIsDistinct ==
    /\ NotFound.code = 404
    /\ \A t \in TaskIds :
         Known(t) =>
            LET found == get_progress_response(t)
            IN /\ found.code # NotFound.code
               /\ ~(/\ found.body.status = NotFound.body.status
                    /\ DOMAIN found.body = DOMAIN NotFound.body)

C13_LookupChangesNothing ==
    (lock = Handler /\ lock' = Free /\ ~Known(poll_id)) => progress_store' = progress_store

Returned(t) ==
    CASE pc[t] \in {"idle", "start"} -> 0
      [] pc[t] \in {"update_progress", "update_progress_locked", "stage"} ->
            locals[t].current_step - 1
      [] pc[t] \in {"update_eta", "update_eta_locked", "finalize", "finalize_locked"} ->
            locals[t].current_step
      [] OTHER ->
            IF Known(t) /\ Status(t) = "success" THEN total_steps
            ELSE Max2(locals[t].current_step - 1, 0)

\* C14: every terminal record, 'success' or 'error', holds the names of the
\* stages completed up to that point and every message appended to error_logs
\* during the run.
C14_TerminalRecordIsComplete ==
    \A t \in TaskIds :
        Terminal(t) =>
            /\ progress_store[t].steps_completed = SubSeq(steps, 1, Returned(t))
            /\ progress_store[t].error_logs = locals[t].error_logs

\* the part of C14 about error_logs
C14_ErrorLogsComplete ==
    \A t \in TaskIds :
        Terminal(t) =>
            /\ {"steps_completed", "error_logs"} \subseteq DOMAIN progress_store[t]
            /\ progress_store[t].error_logs = locals[t].error_logs

\* C15: a stage's name is in steps_completed, and progress counts it, only
\* once the stage's function has returned; an 'error' record lists only the
\* stages that finished before the failure.
C15_NamedOnlyOnCompletion ==
    \A t \in TaskIds :
        Known(t) =>
            /\ Len(progress_store[t].steps_completed) <= Returned(t)
            /\ Processing(t) =>
                 FLeq(progress_store[t].progress, Progress(Returned(t), total_steps))

\* a record changes only in a step of its own thread, made holding the lock
C16_OnlyOwnThreadWrites ==
    \A t \in TaskIds :
        Known(t) =>
            /\ t \in DOMAIN progress_store'
            /\ progress_store'[t] # progress_store[t] => (lock = t /\ pc'[t] # pc[t])

\* the step of get_progress that answers the poll and releases the lock
C16_PollChangesNothing ==
    (lock = Handler /\ lock' = Free) =>
        /\ progress_store' = progress_store
        /\ Known(poll_id) => get_progress_response(poll_id) = Reply(200, progress_store[poll_id])

\* the repair of src/app.py:191-192 has nothing to repair
C16_NothingToRepair ==
    \A t \in TaskIds : Known(t) => "steps_completed" \in DOMAIN progress_store[t]

\* C16: after its creation a record is modified only by its own background
\* thread; a poll of a known id returns the record and leaves the whole
\* registry unchanged, the branch resetting steps_completed never being taken.
C16_RecordOwnedByItsThread ==
    /\ []C16_NothingToRepair
    /\ [][C16_OnlyOwnThreadWrites /\ C16_PollChangesNothing]_vars

\* a known record with completed steps is being polled while its thread and
\* the thread of another task are still at work
C16_Witness ==
    /\ lock = Handler
    /\ Known(poll_id)
    /\ progress_store[poll_id].steps_completed # <<>>
    /\ Processing(poll_id)
    /\ \E t \in TaskIds : t # poll_id /\ Known(t) /\ Processing(t)

\* what lines 55-59 of process_csv reject: no rows, or no selected column
RejectedByValidation(content) == content.data = <<>> \/ content.selected_columns = <<>>

C17_SubmissionStep ==
    \A content \in Requests :
        process_csv(content) =>
            IF RejectedByValidation(content)
            THEN /\ UNCHANGED <<progress_store, pc>>
                 /\ process_csv_response(content).code = 400
            ELSE \E id \in TaskIds :
                    /\ ~Known(id)
                    /\ DOMAIN progress_store' = DOMAIN progress_store \cup {id}
                    /\ progress_store'[id] = [status          |-> "processing",
                                              progress        |-> FInt(0),
                                              steps_completed |-> <<>>,
                                              eta             |-> None,
                                              start_time      |-> now]
                    /\ \A t \in DOMAIN progress_store : progress_store'[t] = progress_store[t]
                    /\ pc[id] = "idle" /\ pc'[id] = "start"
                    /\ \A t \in TaskIds \ {id} : pc'[t] = pc[t]
                    /\ process_csv_response(content)
                           = Reply(200, [status |-> "processing", task_id |-> id])

\* C17: an accepted submission creates exactly one new record, under an id the
\* registry did not hold, with status 'processing', progress 0, no completed
\* step, eta null and a start time, and changes no other record; a submission
\* rejected by the validation creates no record and starts no thread.
C17_SubmissionCreatesOneRecord == [][C17_SubmissionStep]_vars

\* a second submission has just been accepted while the record of the first
\* already lists completed steps
C17_Witness ==
    \E id \in TaskIds :
        /\ pc[id] = "start"
        /\ Known(id)
        /\ \E t \in TaskIds \ {id} : Known(t) /\ progress_store[t].steps_completed # <<>>

\* ------------------------------------------------------------------
\* Properties of the estimates
\* ------------------------------------------------------------------
\* the number of update_eta calls of task t that have returned
EtaUpdates(t) ==
    CASE pc[t] \in {"idle", "start"} -> 0
      [] pc[t] \in {"update_progress", "update_progress_locked", "stage",
                    "update_eta", "update_eta_locked"} -> locals[t].current_step - 1
      [] pc[t] \in {"finalize", "finalize_locked"} -> total_steps
      [] OTHER -> IF Known(t) /\ Status(t) = "success" THEN total_steps
                  ELSE Max2(locals[t].current_step - 1, 0)

\* C18: a record's eta is null in every state before the first stage has
\* returned, and a number in every state with status 'processing' after the
\* first stage has returned.
C18_EtaNullUntilFirstStageReturns ==
    \A t \in TaskIds :
        Processing(t) =>
            /\ Returned(t) = 0 => progress_store[t].eta = None
            /\ Returned(t) >= 1 => progress_store[t].eta # None

\* C18, amended: a record's eta is null in every state before the first
\* update_eta call (the one that follows the return of preprocessing) has
\* stored its estimate, and a number in every state with status 'processing'
\* after that call has returned.
C18_EtaNullUntilFirstUpdateEta ==
    \A t \in TaskIds :
        Processing(t) =>
            /\ EtaUpdates(t) = 0 => progress_store[t].eta = None
            /\ Returned(t) = 0 => progress_store[t].eta = None
            /\ EtaUpdates(t) >= 1 => progress_store[t].eta # None

\* the second stage is running and the record carries the first estimate,
\* while the other task's preprocessing has returned and its record has none
C18_Witness ==
    \E t, u \in TaskIds :
        /\ Processing(t) /\ pc[t] = "stage" /\ locals[t].current_step = 2
        /\ progress_store[t].eta # None
        /\ Processing(u) /\ pc[u] = "update_eta" /\ locals[u].current_step = 1
        /\ progress_store[u].eta = None

\* the stage function of step k has returned: update_eta measures the time
\* since the record's start_time
C19_ElapsedSinceStart ==
    \A t \in TaskIds :
        (pc[t] = "stage" /\ pc'[t] = "update_eta") =>
            /\ locals'[t].elapsed_time = now - progress_store[t].start_time
            /\ locals'[t].elapsed_time >= 0

\* update_eta stores its estimate for step k
C19_StoredEstimate ==
    \A t \in TaskIds :
        (pc[t] = "update_eta_locked" /\ pc'[t] # pc[t]) =>
            LET k == locals[t].current_step
                e == locals[t].elapsed_time
            IN /\ k \in 1..7
               /\ progress_store'[t].eta = Some(FMulInt(FDivInt(e, k), 7 - k))
               /\ k = 7 => progress_store'[t].eta = Some(FInt(0))

\* C19: after the k-th stage (1 <= k <= 7) has finished at elapsed time e
\* since the task's start time, update_eta stores eta = (e / k) * (7 - k); k is
\* never 0, and after the 7th stage the stored eta is 0.
C19_OrchestratorEta == [][C19_ElapsedSinceStart /\ C19_StoredEstimate]_vars

\* the third stage finished 2 seconds after the start and its estimate,
\* (2 / 3) * 4 seconds, is in the record
C19_Witness ==
    \E t \in TaskIds :
        /\ Processing(t)
        /\ pc[t] = "update_progress" /\ locals[t].current_step = 4
        /\ locals[t].elapsed_time = 2
        /\ progress_store[t].eta = Some(FMulInt(FDivInt(2, 3), 4))
        /\ progress_store[t].eta # Some(FZero)

\* the loop measures the time since the scheduler started
C20_ElapsedSinceStart ==
    (batch.pc = "loop" /\ batch'.i # batch.i) =>
        /\ batch'.elapsed_time = now - batch.start_time
        /\ batch'.processed_pairs = Len(batch'.results)
        /\ batch'.processed_pairs = Min2(batch.processed_pairs + batch.batch_size,
                                         batch.total_pairs)

\* after a batch: the estimate from the items of all the batches so far
C20_EstimateAfterBatch ==
    (batch.pc = "loop" /\ batch.i > 0) =>
        /\ batch.processed_pairs = Len(batch.results)
        /\ batch.processed_pairs \in 1..batch.total_pairs
        /\ batch.eta_seconds =
              FMulInt(FDivInt(batch.elapsed_time, batch.processed_pairs),
                      batch.total_pairs - batch.processed_pairs)
        /\ batch.processed_pairs = batch.total_pairs => batch.eta_seconds = FInt(0)
        /\ FMulInt(FDivInt(10, 5), 20 - 5) = FInt(30)

\* C20: after each batch the estimate of process_batches_with_eta is
\* (elapsed / processed) * (total - processed), processed being the number of
\* items of all the batches finished so far and elapsed the time since the
\* scheduler started; 5 of 20 items in 10 seconds give 30 seconds, and after
\* the last batch the estimate is 0.
C20_BatchEta == []C20_EstimateAfterBatch /\ [][C20_ElapsedSinceStart]_vars

\* two batches of 5 of the 21 pairs are done 2 seconds after the start
C20_Witness ==
    /\ batch.pc = "loop"
    /\ batch.total_pairs = 21
    /\ batch.processed_pairs = 10
    /\ batch.elapsed_time = 2
    /\ batch.eta_seconds = FMulInt(FDivInt(2, 10), 11)
    /\ batch.eta_seconds # FInt(0)

\* ------------------------------------------------------------------
\* Properties of the batch loop
\* ------------------------------------------------------------------
\* C21: the slices of process_batches_with_eta are consecutive and their
\* concatenation is the work list, every slice but the last has exactly
\* batch_size items, every item is dispatched exactly once, and the results
\* list has one entry per work item, the i-th belonging to the i-th item.
C21_BatchPartition ==
    batch.pc \in {"loop", "returned"} =>
        LET dispatched == Flatten(batch.batches)
            N == Len(batch.column_pairs)
        IN /\ batch.batch_size >= 1
           /\ Len(dispatched) <= N
           /\ dispatched = SubSeq(batch.column_pairs, 1, Len(dispatched))
           /\ \A j \in 1..Len(batch.batches) :
                /\ Len(batch.batches[j]) \in 1..batch.batch_size
                /\ j < Len(batch.batches) => Len(batch.batches[j]) = batch.batch_size
           /\ Len(batch.results) = Len(dispatched)
           /\ Len(batch.results) <= N
           /\ \A j \in 1..Len(batch.results) :
                /\ batch.results[j].col1 = batch.column_pairs[j][1]
                /\ batch.results[j].col2 = batch.column_pairs[j][2]
           /\ batch.pc = "returned" =>
                /\ dispatched = batch.column_pairs
                /\ Len(batch.returned[1].pairs) = N
                /\ batch.returned[1].pairs = batch.results

\* 21 pairs have gone through in four slices of 5 and a last one of 1
C21_Witness ==
    /\ batch.pc = "returned"
    /\ Len(batch.column_pairs) = 21
    /\ Len(batch.batches) = 5
    /\ Len(batch.batches[5]) = 1

\* the batch (counted from 0) of the item at position p
BatchOf(p) == (p - 1) \div batch.batch_size

\* C22: no item of a batch starts before every item of the batches before it
\* has finished, and the estimate for a batch is computed after the batch has
\* finished and before the next one starts; the items of one batch run
\* concurrently.
C22_BatchesAreSequential ==
    batch.pc \in {"loop", "parallel", "returned"} =>
        /\ batch.finished \subseteq batch.started
        /\ \A p \in batch.started :
              /\ \A q \in 1..batch.total_pairs :
                    BatchOf(q) < BatchOf(p) => q \in batch.finished
              /\ batch.eta_count >= BatchOf(p)
        /\ \A q \in 1..batch.total_pairs :
              BatchOf(q) < batch.eta_count => q \in batch.finished
        /\ Len(batch.results) = Min2(batch.eta_count * batch.batch_size, batch.total_pairs)

\* two items of the second batch are running at the same time
C22_Witness ==
    /\ batch.pc = "parallel"
    /\ batch.eta_count = 1
    /\ Cardinality(batch.started \ batch.finished) = 2
    /\ \A p \in batch.started \ batch.finished : BatchOf(p) = 1

\* ------------------------------------------------------------------
\* Properties of the record's fields
\* ------------------------------------------------------------------
\* the fixed stage sequence
StageSequence ==
    << "Preprocessing Data", "Computing Average Cramer's V",
       "Logistic Regression Analysis", "Decision Tree Analysis",
       "Random Forest Analysis", "Chi-Square Tests", "Multi-Variable Analysis" >>

C23_PrefixOfStageSequence ==
    \A t \in TaskIds :
        Known(t) =>
            LET done == progress_store[t].steps_completed
            IN /\ Len(done) <= Len(StageSequence)
               /\ done = SubSeq(StageSequence, 1, Len(done))
               /\ Distinct(done)

C23_GrowsByNextStage ==
    \A t \in TaskIds :
        Known(t) =>
            LET done == progress_store[t].steps_completed
            IN \/ progress_store'[t].steps_completed = done
               \/ /\ Len(done) < Len(StageSequence)
                  /\ progress_store'[t].steps_completed
                         = Append(done, StageSequence[Len(done) + 1])

\* C23: in every state each record's steps_completed is a prefix of the fixed
\* stage sequence with no repeated name, and in every step the list stays as
\* it is or grows by the next stage of the sequence.
C23_StepsCompletedAppendOnly ==
    []C23_PrefixOfStageSequence /\ [][C23_GrowsByNextStage]_vars

\* one record lists all seven stages while another lists the first five
C23_Witness ==
    \E t, u \in TaskIds :
        /\ Known(t) /\ progress_store[t].steps_completed = StageSequence
        /\ Known(u) /\ Len(progress_store[u].steps_completed) = 5

\* ------------------------------------------------------------------
\* Properties of the interpretation labels
\* ------------------------------------------------------------------
Labels == << "Very weak", "Weak", "Moderate", "Strong", "Very strong" >>
LabelRank(label) == CHOOSE j \in 1..Len(Labels) : Labels[j] = label

\* C24: interpret_cramers_v gives a strength s exactly one label, by the cut
\* points 0.1, 0.3, 0.5 and 0.7 (each the lower end of its label); a larger s
\* never gets a weaker label; 0.05, 0.25, 0.45, 0.65 and 0.85 get the five
\* labels in their order.
C24_LabelsByCutPoints ==
    (analysis.pc = "label" /\ ~isnan(analysis.strength[1])) =>
        LET s     == analysis.strength[1].val
            label == analysis.interpretation[1]
        IN /\ label \in Range(Labels)
           /\ label = "Very weak"   <=> s < 100
           /\ label = "Weak"        <=> (100 <= s /\ s < 300)
           /\ label = "Moderate"    <=> (300 <= s /\ s < 500)
           /\ label = "Strong"      <=> (500 <= s /\ s < 700)
           /\ label = "Very strong" <=> s >= 700
           /\ \A n \in s..Scale :
                LabelRank(interpret_cramers_v(Num(n))) >= LabelRank(label)
           /\ s = 50  => label = Labels[1]
           /\ s = 250 => label = Labels[2]
           /\ s = 450 => label = Labels[3]
           /\ s = 650 => label = Labels[4]
           /\ s = 850 => label = Labels[5]

\* the strength 0.3, a cut point, has got its label
C24_Witness ==
    /\ analysis.pc = "label"
    /\ analysis.strength = Some(Num(300))
    /\ analysis.interpretation = Some("Moderate")

\* C25: the record returned by a poll of a known task id has, in every state
\* of the task, the fields status, progress, steps_completed and eta, with
\* status one of processing, success, error and progress between 0 and 100; a
\* success record has the results bundle as well, an error record the message.
C25_PolledRecordFields ==
    \A t \in TaskIds :
        Known(t) =>
            LET found == get_progress_response(t).body
            IN /\ {"status", "progress", "steps_completed", "eta"} \subseteq DOMAIN found
               /\ found.status \in {"processing", "success", "error"}
               /\ FLeq(FInt(0), found.progress) /\ FLeq(found.progress, FInt(100))
               /\ found.status = "success" => ResultFields \subseteq DOMAIN found
               /\ found.status = "error" => "message" \in DOMAIN found

\* the part of C25 that holds: processing and success records
C25_LiveAndSuccessRecordFields ==
    \A t \in TaskIds :
        Known(t) =>
            LET found == get_progress_response(t).body
            IN /\ "status" \in DOMAIN found
               /\ found.status \in {"processing", "success", "error"}
               /\ "steps_completed" \in DOMAIN found
               /\ found.status # "error" =>
                    /\ {"progress", "eta"} \subseteq DOMAIN found
                    /\ FLeq(FInt(0), found.progress) /\ FLeq(found.progress, FInt(100))
               /\ found.status = "success" => ResultFields \subseteq DOMAIN found
               /\ found.status = "error" =>
                    DOMAIN found = {"status", "message", "steps_completed", "error_logs"}

\* ------------------------------------------------------------------
\* Properties of the lock
\* ------------------------------------------------------------------
\* the positions of a thread inside a "with progress_store_lock:" block
LockedPositions ==
    {"update_progress_locked", "update_eta_locked", "finalize_locked", "except_locked"}

\* a thread holds the lock only inside a locked block, never in a stage
C26_NoLockDuringStage ==
    \A t \in TaskIds :
        /\ lock = t => pc[t] \in LockedPositions
        /\ pc[t] = "stage" => lock # t

\* C26: no thread holds progress_store_lock while it runs a stage
\* computation, so a poll gets the lock however many tasks are in the middle
\* of a stage; every acquisition of the lock is followed by its release.
C26_PollNeverBlocksOnStages ==
    /\ []C26_NoLockDuringStage
    /\ (lock # Free) ~> (lock = Free)
    /\ (lock = Handler) ~> (lock = Free /\ poll_id = UnknownId)

\* a poll holds the lock while every task is in the middle of a stage
C26_Witness ==
    /\ lock = Handler
    /\ \A t \in TaskIds : pc[t] = "stage"

\* ------------------------------------------------------------------
\* Properties of the column selection
\* ------------------------------------------------------------------
ValidSelection(selected_columns, columns) ==
    /\ selected_columns # <<>>
    /\ Distinct(selected_columns)
    /\ Range(selected_columns) \subseteq columns

\* C27: every selection for which a task is created, or batch processing is
\* started, is non-empty, has no duplicate name and has only names that are
\* columns of the dataset.
C27_SelectionIsValid ==
    /\ \A t \in TaskIds :
         Known(t) =>
            ValidSelection(args[t][1].selected_columns, DataColumns(args[t][1].data))
    /\ batch.pc \in {"loop", "parallel", "returned"} =>
         ValidSelection(batch.selected_columns, DataColumns(BatchData))

\* ------------------------------------------------------------------
\* Properties of the multi-variable enumeration
\* ------------------------------------------------------------------
\* the sets of two or more columns of pairwise different groups
CrossGroupSets(columns) ==
    { C \in SUBSET Range(columns) :
        /\ Cardinality(C) >= 2
        /\ \A c, d \in C : c # d => Prefix(c) # Prefix(d) }

\* C28: multi_variable_analysis considers every tuple of the cross-product of
\* every subset of two or more groups exactly once, and the tuples it
\* considers without reporting an entry are exactly those whose frequency
\* table has min dimension - 1 = 0.
C28_EnumerationCompleteAndDuplicateFree ==
    (analysis.pc = "frame" /\ Len(analysis.df[1].columns) >= 2) =>
        LET df     == analysis.df[1]
            tuples == MultiVariableTuples(df.columns)
            Reported(t) == MinDim(FreqTable(df, t)) # 0
        IN /\ \A j \in 1..Len(tuples) : Range(tuples[j]) \in CrossGroupSets(df.columns)
           /\ \A j \in 1..Len(tuples) : Len(tuples[j]) = Cardinality(Range(tuples[j]))
           /\ \A C \in CrossGroupSets(df.columns) :
                Cardinality({ j \in 1..Len(tuples) : Range(tuples[j]) = C }) = 1
           /\ analysis.multi_variable_results # None =>
                LET results == analysis.multi_variable_results[1]
                IN /\ Len(results) = Len(SelectSeq(tuples, Reported))
                   /\ { results[j].variables : j \in 1..Len(results) }
                         = { tuples[j] : j \in { i \in 1..Len(tuples) : Reported(tuples[i]) } }

\* the stage has run on three columns of three groups, one of them constant:
\* of the four tuples considered, some are reported and some are not
C28_Witness ==
    /\ analysis.pc = "frame"
    /\ analysis.multi_variable_results # None
    /\ Len(MultiVariableTuples(analysis.df[1].columns)) = 4
    /\ Len(analysis.multi_variable_results[1]) \in 1..3

\* ------------------------------------------------------------------
\* Properties of concurrent tasks
\* ------------------------------------------------------------------
\* a step of the thread of task t leaves the record of every other task alone
C29_OwnRecordOnly ==
    \A t \in TaskIds :
        pc'[t] # pc[t] =>
            \A u \in DOMAIN progress_store \ {t} :
                /\ u \in DOMAIN progress_store'
                /\ progress_store'[u] = progress_store[u]

\* no update is lost: while task t is processing, its record holds what the
\* last update_progress and the last update_eta of its thread wrote
C29_NoLostUpdate ==
    \A t \in TaskIds :
        (Processing(t) /\ pc[t] \notin {"start", "except", "except_locked"}) =>
            LET k == locals[t].current_step
                updates == IF pc[t] \in {"update_progress", "update_progress_locked"}
                           THEN k - 1 ELSE k
            IN /\ progress_store[t].steps_completed = SubSeq(steps, 1, updates)
               /\ updates >= 1 => progress_store[t].progress = Progress(updates, total_steps)
               /\ EtaUpdates(t) >= 1 => progress_store[t].eta = Some(locals[t].eta)

\* the final status and steps_completed of a task are those of the task
\* running alone: they depend on its own request only
C29_FinalAsIfAlone ==
    \A t \in TaskIds :
        Terminal(t) =>
            IF SelectRaises(args[t][1].data, args[t][1].selected_columns)
            THEN Status(t) = "error" /\ progress_store[t].steps_completed = <<steps[1]>>
            ELSE Status(t) = "success" /\ progress_store[t].steps_completed = steps

\* C29: with two or more tasks running concurrently, every update_progress,
\* update_eta and finalization changes the record of its own task only, no
\* update to a record is lost, and each task ends with the steps_completed and
\* the status it would have had running alone.
C29_TasksAreIsolated ==
    /\ [](C29_NoLostUpdate /\ C29_FinalAsIfAlone)
    /\ [][C29_OwnRecordOnly]_vars

\* two tasks are in the middle of their runs: one has just had its fourth
\* estimate stored and waits for the lock, which the other holds to store
\* the progress of its second step
C29_Witness ==
    \E t, u \in TaskIds :
        /\ Processing(t) /\ pc[t] = "update_progress" /\ locals[t].current_step = 5
        /\ Processing(u) /\ pc[u] = "update_progress_locked" /\ locals[u].current_step = 2
        /\ lock = u

\* ------------------------------------------------------------------
\* Properties of the record's lifetime
\* ------------------------------------------------------------------
\* the record is there from the start of the thread on; no access of the
\* thread finds the task id missing; the except clause runs only for an
\* exception raised after error_logs = [] (line 84), and writes its record
C30_RecordBeforeThread ==
    \A t \in TaskIds :
        /\ pc[t] # "idle" => Known(t)
        /\ pc[t] # "crashed"
        /\ locals[t].message # "KeyError"
        /\ pc[t] \in {"except", "except_locked"} => locals[t].current_step >= 1
        /\ (pc[t] = "done" /\ locals[t].message # "") => Status(t) = "error"

\* a record is never removed
C30_NeverRemoved ==
    \A t \in TaskIds : Known(t) => t \in DOMAIN progress_store'

\* C30: the record of a task exists before its thread makes its first
\* registry access and is never removed; no access of process_data_task,
\* update_progress, update_eta or the error handler finds the id missing, and
\* the error handler cannot fail.
C30_RecordOutlivesThread == []C30_RecordBeforeThread /\ [][C30_NeverRemoved]_vars

\* the error handler of one task holds the lock, about to read its record,
\* while the thread of the other is about to make its first access
C30_Witness ==
    \E t, u \in TaskIds :
        /\ pc[t] = "except_locked" /\ Known(t)
        /\ pc[u] = "start" /\ Known(u)

====
